---- MODULE Spec2Model ----
(***************************************************************************)
(* Live buffer queue (package queue), slice queue (package slice) and the  *)
(* transport pumps of bugVanisher/streamer, as state machines.             *)
(*                                                                         *)
(* The queue's RWMutex makes every critical section atomic: a writer       *)
(* operation runs under Lock, a cursor runs under RLock from the call (or  *)
(* from a wake-up of cond.Wait) to the next cond.Wait or return.  Each     *)
(* such section is one action.                                             *)
(***************************************************************************)
EXTENDS Integers, Sequences, FiniteSets, TLC

VARIABLES
    tr,       \* the transport pump: its variant, position, source, sink log and result
    gopLen,   \* frames per GOP of a producer that writes whole GOPs; 0 for a free producer
    sys,      \* which queue this run builds: "main" (package queue) or "slice" (package slice)
    que,      \* the Queue struct (buf, headers, closed, limits, counters)
    cur,      \* the QueueCursor structs, by cursor name
    cpc,      \* where each cursor's ReadPacket call stands (idle or parked in a cond.Wait)
    sig,      \* cond.Broadcast delivered to a parked cursor and not yet consumed
    rets,     \* what each cursor's ReadPacket calls returned, in order
    rlocks,   \* read locks held by calls that returned without RUnlock
    wblocked, \* a writer is parked in lock.Lock() behind such a read lock
    wleft,    \* writer operations the producer still issues
    rleft,    \* ReadPacket calls the consumers still issue
    rtmp,     \* the RTMP conn struct and the outcome of its last operation
    mng,      \* the stream manager's map and the Launch calls in progress
    hls,      \* the HLS hook's event channel and context
    lreg,     \* the value of lossPktCount each cursor loaded for its += and has not stored yet
    slc,      \* the slicer: its DataSliceInfo, the frame handed to GenerateSlice, the slices made and parsed
    hsk,      \* the server handshake: the bytes read from the peer, the bytes written, where it stands
    ts,       \* the TS demuxer: its H.264 stream, the packets it holds and those ReadPacket returned
    hres,     \* what each cursor's Headers calls returned, in order
    chk,      \* the RTMP chunk reader of one conn
    wr,       \* the write side of one RTMP conn
    rp,       \* the read side of one RTMP conn after probe
    tsc       \* the TS cache of an HLS stream

vars == <<tr, gopLen, sys, que, cur, cpc, sig, rets, rlocks, wblocked, wleft, rleft,
          rtmp, mng, hls, lreg, slc, hsk, ts, hres, chk, wr, rp, tsc>>

\* The components beside the queue and the pump.
NetVars == <<rtmp, mng, hls, lreg, slc, hsk, ts, hres, chk, wr, rp, tsc>>

\* The queue, its cursors and their callers.
BufferVars == <<gopLen, sys, que, cur, cpc, sig, rets, rlocks, wblocked, wleft, rleft>>

----------------------------------------------------------------------------
(* Bounds of the model *)

MaxWrites == 3
MaxReads == 2
MaxStage == 5
MaxLaunchers == 2

(* Program constants *)

DefaultGopCount == 6
DefaultPktCount == 2000

\* The outcomes of a call on the network or on a callback.
Errs == {"nil", "err"}

NoVideoIdx == 0 - 1

Cursors == {"c1"}

Min(S) == CHOOSE x \in S : \A y \in S : x <= y

----------------------------------------------------------------------------
(* Packets and headers *)

ZeroPkt ==
    [DataType |-> "none", IsKeyFrame |-> FALSE, Idx |-> 0,
     HeaderBeginAt |-> 0, HeaderChanged |-> FALSE, SliceId |-> 0]

\* What a producer hands to WritePacket: a video keyframe, a video non-key
\* frame and an audio frame of a stream list <<video, audio>>.
VideoKey == [ZeroPkt EXCEPT !.DataType = "video", !.IsKeyFrame = TRUE]
VideoRef == [ZeroPkt EXCEPT !.DataType = "video"]
Audio == [ZeroPkt EXCEPT !.DataType = "audio", !.Idx = 1]

PktInputs == {VideoKey, VideoRef, Audio}

\* The codec lists a producer hands to WriteHeader.
HeaderInputs == {<<"H264", "AAC">>, <<"H264">>, <<"AAC">>, <<"SPEEX", "H264">>}

IsVideoType(t) == t = "H264"

\* ConvertHeader keeps the H264 and AAC streams, in order, as headers of
\* the type of the same name.
IsKnownCodec(d) == d \in {"H264", "AAC"}
ConvertHeader(data) == SelectSeq(data, IsKnownCodec)

----------------------------------------------------------------------------
(* Buf: the ring buffer *)

NewBuf == [Head |-> 0, Tail |-> 0, pkts |-> <<>>]

Count(buf) == Len(buf.pkts)

LT(a, b) == a - b < 0
GT(a, b) == a - b > 0
GE(a, b) == a - b >= 0

IsValidPos(buf, pos) == GE(pos, buf.Head) /\ LT(pos, buf.Tail)

Get(buf, pos) == IF IsValidPos(buf, pos) THEN buf.pkts[pos - buf.Head + 1] ELSE ZeroPkt

Push(buf, pkt) == [buf EXCEPT !.pkts = Append(@, pkt), !.Tail = @ + 1]

Pop(buf) == [buf EXCEPT !.pkts = Tail(@), !.Head = @ + 1]

----------------------------------------------------------------------------
(* Queue: the writer side *)

NewQueue ==
    [buf |-> NewBuf, headers |-> <<>>, videoidx |-> NoVideoIdx, closed |-> FALSE,
     maxGOPCount |-> DefaultGopCount, maxPktCount |-> DefaultPktCount,
     curGOPCount |-> 0, curVideoCount |-> 0, curAudioCount |-> 0, lossPktCount |-> 0]

SetMaxGopCount(q, n) == [q EXCEPT !.maxGOPCount = n]
SetMaxPktCount(q, n) == [q EXCEPT !.maxPktCount = n]

\* The single-family repair of WriteHeader: carry the other family over from
\* the previous header.
RepairHeader(q, datas) ==
    IF Len(datas) = 1 /\ Len(q.headers) > 0
    THEN LET prev == q.headers[Len(q.headers)].Datas
             lost == IF datas[1] = "H264" THEN "AAC" ELSE "H264"
             at   == {i \in 1..Len(prev) : prev[i] = lost}
         IN  IF at # {} THEN Append(datas, prev[Min(at)]) ELSE datas
    ELSE datas

WriteHeader(q, data) ==
    LET datas == RepairHeader(q, ConvertHeader(data))
        hdr   == [Datas |-> datas, BeginAt |-> q.buf.Tail]
        dup   == {i \in 1..Len(q.headers) : q.headers[i].BeginAt = q.buf.Tail}
        vid   == {i \in 1..Len(datas) : IsVideoType(datas[i])}
    IN  [q EXCEPT
           !.headers  = IF dup # {} THEN [@ EXCEPT ![Min(dup)] = hdr] ELSE Append(@, hdr),
           !.videoidx = IF vid # {} THEN Min(vid) - 1 ELSE @]

Close(q) == [q EXCEPT !.closed = TRUE]

\* Counter updates that take every video packet for the start of a GOP.
CountPktEveryVideo(q, pkt, d) ==
    [q EXCEPT
       !.curVideoCount = IF pkt.DataType = "video" THEN @ + d ELSE @,
       !.curAudioCount = IF pkt.DataType = "audio" THEN @ + d ELSE @,
       !.curGOPCount   = IF pkt.DataType = "video" THEN @ + d ELSE @]

\* Counter updates of WritePacket for a packet entering (d = 1) or leaving
\* (d = -1) the buffer.
CountPkt(q, pkt, d) ==
    [q EXCEPT
       !.curVideoCount = IF pkt.DataType = "video" THEN @ + d ELSE @,
       !.curAudioCount = IF pkt.DataType = "audio" THEN @ + d ELSE @,
       !.curGOPCount   = IF pkt.DataType = "video" /\ pkt.IsKeyFrame THEN @ + d ELSE @]

\* The two halves of the eviction test of WritePacket.
OverLimitGopOnly(q) == q.curGOPCount >= q.maxGOPCount
OverLimitPktOnly(q) == Count(q.buf) >= q.maxPktCount

OverLimit(q) ==
    q.curGOPCount >= q.maxGOPCount \/ Count(q.buf) >= q.maxPktCount

\* The eviction loop of WritePacket.
RECURSIVE Evict(_)
Evict(q) ==
    IF Count(q.buf) > 1 /\ OverLimit(q)
    THEN LET pkt == Get(q.buf, q.buf.Head)
             q1  == CountPkt([q EXCEPT !.buf = Pop(@)], pkt, 0 - 1)
         IN  IF q1.curGOPCount < q1.maxGOPCount /\ Count(q1.buf) < q1.maxPktCount
             THEN q1
             ELSE Evict(q1)
    ELSE q

\* A clean-up that keeps only the newest header.
ClearHeadersButLast(q) ==
    IF Len(q.headers) > 1
    THEN [q EXCEPT !.headers = SubSeq(@, Len(@), Len(@))]
    ELSE q

\* The header clean-up of WritePacket.
ClearHeaders(q) ==
    LET at == {i \in 1..Len(q.headers) : q.buf.Head >= q.headers[i].BeginAt}
        clearPoint == IF at = {} THEN 0 - 1
                      ELSE (CHOOSE i \in at : \A j \in at : j <= i) - 1
    IN  IF clearPoint > 0
        THEN [q EXCEPT !.headers = SubSeq(@, clearPoint + 1, Len(@))]
        ELSE q

StampHeader(q, pkt) ==
    IF Len(q.headers) > 0
    THEN [pkt EXCEPT !.HeaderBeginAt = q.headers[Len(q.headers)].BeginAt]
    ELSE pkt

WritePacket(q, pkt0) ==
    LET pkt == StampHeader(q, pkt0)
        q1  == CountPkt([q EXCEPT !.buf = Push(@, pkt)], pkt, 1)
    IN  ClearHeaders(Evict(q1))

----------------------------------------------------------------------------
(* QueueCursor: construction and initial positioning *)

newCursor ==
    [pos |-> 0, gotpos |-> FALSE, preInited |-> FALSE, curHeaderBeginAt |-> 0 - 1,
     StartOffset |-> 0, SkipFrameThreshold |-> 0,
     EnableSlice |-> FALSE, SliceStartId |-> 0, SliceSubstreamId |-> 0,
     SliceStreamBase |-> 0, curAtSliceId |-> 0]

CursorByDelayedFrame(startOffset, skipFrameThreshold) ==
    [newCursor EXCEPT !.StartOffset = startOffset,
                      !.SkipFrameThreshold = skipFrameThreshold]

CursorBySliceReq(sliceStartId, sliceSubstreamId, sliceStreamBase) ==
    [newCursor EXCEPT !.EnableSlice = TRUE, !.SliceStartId = sliceStartId,
                      !.SliceSubstreamId = sliceSubstreamId,
                      !.SliceStreamBase = sliceStreamBase]

\* The backward walk of cursor.init: from i down to the head, counting the
\* packets passed, stopping at a keyframe of the video stream that has at
\* least startOffset packets after it.
RECURSIVE ScanBack(_, _, _, _, _, _)
ScanBack(buf, videoidx, startOffset, i, delayedFrame, lastKeyFramePos) ==
    IF ~IsValidPos(buf, i)
    THEN [i |-> i, lastKeyFramePos |-> lastKeyFramePos]
    ELSE LET pkt == Get(buf, i)
         IN  IF pkt.Idx = videoidx /\ pkt.IsKeyFrame
             THEN IF delayedFrame >= startOffset
                  THEN [i |-> i, lastKeyFramePos |-> lastKeyFramePos]
                  ELSE ScanBack(buf, videoidx, startOffset, i - 1, delayedFrame + 1, i)
             ELSE ScanBack(buf, videoidx, startOffset, i - 1, delayedFrame + 1,
                           lastKeyFramePos)

\* cursor.init of CursorByDelayedFrame.
DelayedFrameInitLatest(buf, videoidx, startOffset, adjustToLastKeyFrame) ==
    LET r == IF videoidx # NoVideoIdx
             THEN ScanBack(buf, videoidx, 0, buf.Tail - 1, 0, buf.Tail)
             ELSE [i |-> buf.Tail - 1, lastKeyFramePos |-> buf.Tail]
    IN  IF adjustToLastKeyFrame /\ ~IsValidPos(buf, r.i)
        THEN r.lastKeyFramePos
        ELSE r.i
DelayedFrameInit(buf, videoidx, startOffset, adjustToLastKeyFrame) ==
    LET r == IF videoidx # NoVideoIdx
             THEN ScanBack(buf, videoidx, startOffset, buf.Tail - 1, 0, buf.Tail)
             ELSE [i |-> buf.Tail - 1, lastKeyFramePos |-> buf.Tail]
    IN  IF adjustToLastKeyFrame /\ ~IsValidPos(buf, r.i)
        THEN r.lastKeyFramePos
        ELSE r.i

IsVideo(pkt) == pkt.DataType = "video"

VideoAt(buf, from, to) == {i \in from..to : IsValidPos(buf, i) /\ IsVideo(Get(buf, i))}

Max(S) == CHOOSE x \in S : \A y \in S : y <= x

\* cursor.initSlice of CursorBySliceReq: <<position, slice id>>.
SliceInit(buf, sliceStartId) ==
    LET vids == VideoAt(buf, buf.Head, buf.Tail - 1)
        last == Max(vids)
        before == {i \in vids : i < last}
        maxSliceId  == IF vids = {} THEN 0 ELSE Get(buf, last).SliceId
        maxSlicePos == IF vids = {} THEN 0
                       ELSE IF before = {} \/ Max(before) + 1 = 0 THEN buf.Head
                       ELSE Max(before) + 1
        minSliceId  == IF vids = {} THEN 0 ELSE Get(buf, Min(vids)).SliceId + 1
        minSlicePos == IF vids = {} THEN 0 ELSE Min(vids) + 1
        hit == {i \in vids : i >= minSlicePos /\
                   (sliceStartId - 1 = Get(buf, i).SliceId \/ sliceStartId < Get(buf, i).SliceId)}
    IN  IF sliceStartId = 0 \/ sliceStartId >= maxSliceId
        THEN <<maxSlicePos, maxSliceId>>
        ELSE IF sliceStartId <= minSliceId
        THEN <<minSlicePos, minSliceId>>
        ELSE IF hit = {}
        THEN <<minSlicePos, sliceStartId>>
        ELSE IF sliceStartId - 1 = Get(buf, Min(hit)).SliceId
        THEN <<Min(hit) + 1, sliceStartId>>
        ELSE <<Min(hit) + 1, Get(buf, Min(hit)).SliceId>>

\* One pass of the loop of preInit / preInitSlice: "ok" when positioned,
\* "eof" on a closed queue, "wait" for cond.Wait.
preInit(q, c) ==
    LET p  == DelayedFrameInit(q.buf, q.videoidx, c.StartOffset, FALSE)
        ok == IsValidPos(q.buf, p)
    IN  [c   |-> [c EXCEPT !.pos = p, !.gotpos = ok, !.preInited = ok],
         out |-> IF ok THEN "ok" ELSE IF q.closed THEN "eof" ELSE "wait"]

preInitSlice(q, c) ==
    LET r  == SliceInit(q.buf, c.SliceStartId)
        ok == IsValidPos(q.buf, r[1])
    IN  [c   |-> [c EXCEPT !.pos = r[1], !.curAtSliceId = r[2], !.gotpos = ok,
                           !.preInited = ok],
         out |-> IF ok THEN "ok" ELSE IF q.closed THEN "eof" ELSE "wait"]
----------------------------------------------------------------------------
(* QueueCursor.ReadPacket: the loops of readWholePacket and readSlicePacket *)

\* A counter that forgets the packets a cursor skipped.
AddLossNone(loss, n) == loss

\* lossPktCount is a uint32; the runs modelled here stay far below its wrap.
AddLoss(loss, n) == loss + n

\* The header check that ends a successful read: flag the packet when its
\* header is newer than the one the cursor delivered last.
MarkHeader(c, pkt) ==
    IF pkt.HeaderBeginAt > c.curHeaderBeginAt
    THEN [c |-> [c EXCEPT !.curHeaderBeginAt = pkt.HeaderBeginAt],
          pkt |-> [pkt EXCEPT !.HeaderChanged = TRUE]]
    ELSE [c |-> c, pkt |-> pkt]

\* What one run of a cursor under the read lock ends with: out is "pkt"
\* (return a packet fetched at position at), "eof" (return io.EOF) or the
\* cond.Wait it parks in.
Outcome(c, loss, out, pkt, at) ==
    [c |-> c, loss |-> loss, out |-> out, pkt |-> pkt, at |-> at]

\* A position that is not behind the head.
CanFetchFromHead(buf, pos) == GE(pos, buf.Head)

\* The guard of the fetch in both loops.
CanFetch(buf, pos) == IsValidPos(buf, pos)

\* The acceptance test of a re-initialised position in readWholePacket.
ReinitAccepted(buf, pos, oldPos) == IsValidPos(buf, pos) /\ pos > oldPos

\* A re-init test that compares the lag behind the newest packet with the
\* threshold, whatever the threshold is.
NeedsReinitAnyThreshold(c, buf) ==
    ~c.gotpos \/ LT(c.pos, buf.Head) \/ buf.Tail - 1 - c.pos > c.SkipFrameThreshold

\* The test that sends readWholePacket into a re-init: no valid position
\* from the last one, a position behind the head, or a lag over the threshold.
NeedsReinit(c, buf) ==
    ~c.gotpos \/ LT(c.pos, buf.Head)
        \/ (c.SkipFrameThreshold > 0 /\ buf.Tail - c.pos > c.SkipFrameThreshold)

\* One iteration of the for loop of readWholePacket.
LoopWhole(q, c0, loss0) ==
    LET buf   == q.buf
        loss  == IF LT(c0.pos, buf.Head) THEN AddLoss(loss0, buf.Head - c0.pos) ELSE loss0
        c1    == IF GT(c0.pos, buf.Tail) THEN [c0 EXCEPT !.pos = buf.Tail] ELSE c0
        reinit == NeedsReinit(c1, buf)
        newPos == DelayedFrameInit(buf, q.videoidx, c1.StartOffset, TRUE)
        got    == ReinitAccepted(buf, newPos, c1.pos)
        c2    == IF reinit THEN [c1 EXCEPT !.pos = newPos, !.gotpos = got] ELSE c1
    IN  IF reinit /\ ~got
        THEN Outcome(c2, loss, IF q.closed THEN "eof" ELSE "reinitWait", ZeroPkt, c2.pos)
        ELSE IF CanFetch(buf, c2.pos)
        THEN LET m == MarkHeader([c2 EXCEPT !.pos = @ + 1], Get(buf, c2.pos))
             IN  Outcome(m.c, loss, "pkt", m.pkt, c2.pos)
        ELSE Outcome(c2, loss, IF q.closed THEN "eof" ELSE "tailWait", ZeroPkt, c2.pos)

\* The substream filter of readSlicePacket.
WantSlice(c) ==
    c.SliceStreamBase = 0 \/ (c.curAtSliceId % c.SliceStreamBase) = c.SliceSubstreamId

\* The for loop of readSlicePacket, up to its next cond.Wait or return.
RECURSIVE LoopSlice(_, _, _)
LoopSlice(q, c0, loss0) ==
    LET buf   == q.buf
        loss  == IF LT(c0.pos, buf.Head) THEN AddLoss(loss0, buf.Head - c0.pos) ELSE loss0
        c1    == IF GT(c0.pos, buf.Tail) THEN [c0 EXCEPT !.pos = buf.Tail] ELSE c0
        reinit == LT(c1.pos, buf.Head)
        vids  == VideoAt(buf, buf.Head, buf.Tail - 1)
        c2    == IF reinit /\ vids # {}
                 THEN [c1 EXCEPT !.curAtSliceId = Get(buf, Max(vids)).SliceId + 1,
                                 !.pos = Max(vids) + 1]
                 ELSE c1
        c3    == IF reinit THEN [c2 EXCEPT !.gotpos = IsValidPos(buf, c2.pos)] ELSE c2
    IN  IF reinit /\ ~c3.gotpos
        THEN Outcome(c3, loss, IF q.closed THEN "eof" ELSE "reinitWait", ZeroPkt, c3.pos)
        ELSE IF CanFetch(buf, c3.pos)
        THEN LET pktTmp == Get(buf, c3.pos)
                 get    == WantSlice(c3)
                 c4     == [c3 EXCEPT
                              !.curAtSliceId = IF IsVideo(pktTmp) THEN pktTmp.SliceId + 1 ELSE @,
                              !.pos = @ + 1]
                 m      == MarkHeader(c4, pktTmp)
             IN  IF get
                 THEN Outcome(m.c, loss, "pkt", m.pkt, c3.pos)
                 ELSE LoopSlice(q, c4, loss)
        ELSE Outcome(c3, loss, IF q.closed THEN "eof" ELSE "tailWait", ZeroPkt, c3.pos)

\* readWholePacket from its first line (fresh = TRUE) or from the wake-up of
\* a cond.Wait of preInit; leak tells that the call returns holding the read lock.
readWholePacket(q, c, pre) ==
    IF pre
    THEN LET p == preInit(q, c)
         IN  IF p.out = "ok"
             THEN [r |-> LoopWhole(q, p.c, q.lossPktCount), leak |-> FALSE]
             ELSE IF p.out = "eof"
             THEN [r |-> Outcome(p.c, q.lossPktCount, "eof", ZeroPkt, p.c.pos), leak |-> TRUE]
             ELSE [r |-> Outcome(p.c, q.lossPktCount, "preWait", ZeroPkt, p.c.pos),
                   leak |-> FALSE]
    ELSE [r |-> LoopWhole(q, c, q.lossPktCount), leak |-> FALSE]

readSlicePacket(q, c, pre) ==
    IF pre
    THEN LET p == preInitSlice(q, c)
         IN  IF p.out = "ok"
             THEN [r |-> LoopSlice(q, p.c, q.lossPktCount), leak |-> FALSE]
             ELSE [r |-> Outcome(p.c, q.lossPktCount,
                                 IF p.out = "eof" THEN "eof" ELSE "preWait", ZeroPkt, p.c.pos),
                   leak |-> FALSE]
    ELSE [r |-> LoopSlice(q, c, q.lossPktCount), leak |-> FALSE]

\* QueueCursor.ReadPacket dispatches on EnableSlice.
ReadPacket(q, c, pre) ==
    IF c.EnableSlice THEN readSlicePacket(q, c, pre) ELSE readWholePacket(q, c, pre)
----------------------------------------------------------------------------
(* Package slice: the slice queue's writer side *)

SliceDefaultPktCount == 10000
DefaultCacheTimeMax == 20000
stageHandshakeDone == 1
stageCommandDone == 2
stageCodecDataDone == 3
prepareReading == 1
prepareWriting == 2
CodeDuplicateStream == 1001
HookEventQueueLen == 10000

SliceZeroPkt ==
    [SliceType |-> "flv_header", FrameType |-> "audio", PosFlag |-> "middle",
     SliceId |-> 0, FrameDts |-> 0, HeaderBeginAt |-> 0, HeaderChanged |-> FALSE]

SliceNewQueue ==
    [buf |-> NewBuf, headers |-> <<>>, closed |-> FALSE,
     maxPktCount |-> SliceDefaultPktCount, maxCacheTime |-> DefaultCacheTimeMax,
     minPktDts |-> 0, curPKtCount |-> 0, curGOPCount |-> 0, curPktDuration |-> 0,
     lossPktCount |-> 0, maxSliceId |-> 0]

SetMaxCacheTime(q, n) == [q EXCEPT !.maxCacheTime = n]

SliceWriteHeader(q, datas) ==
    LET hdr == [Datas |-> datas, BeginAt |-> q.buf.Tail]
        dup == {i \in 1..Len(q.headers) : q.headers[i].BeginAt = q.buf.Tail}
    IN  [q EXCEPT
           !.headers = IF dup # {} THEN [@ EXCEPT ![Min(dup)] = hdr] ELSE Append(@, hdr)]

IsGopStart(pkt) ==
    pkt.SliceType = "video" /\ pkt.FrameType = "idr" /\ pkt.PosFlag = "start"

SliceOverLimit(q, pkt) ==
    Count(q.buf) >= q.maxPktCount
      \/ (pkt.FrameDts > 0 /\ pkt.FrameDts - q.minPktDts > q.maxCacheTime)

\* The eviction loop of the slice queue's WritePacket; pkt is the packet
\* just pushed.
RECURSIVE SliceEvict(_, _)
SliceEvict(q, pkt) ==
    IF Count(q.buf) > 1 /\ SliceOverLimit(q, pkt)
    THEN LET tmpPkt == Get(q.buf, q.buf.Head)
             newer  == pkt.FrameDts > 0 /\ tmpPkt.FrameDts > q.minPktDts
         IN  SliceEvict(
                 [q EXCEPT
                    !.buf = Pop(@),
                    !.minPktDts = IF newer THEN tmpPkt.FrameDts ELSE @,
                    !.curPktDuration = IF newer THEN pkt.FrameDts - tmpPkt.FrameDts ELSE @,
                    !.curGOPCount = IF IsGopStart(tmpPkt) THEN @ - 1 ELSE @],
                 pkt)
    ELSE q

\* The duplicate filter of the slice queue's WritePacket.
IsDuplicate(q, pkt) == q.maxSliceId > 0 /\ pkt.SliceId <= q.maxSliceId

SliceWritePacket(q, pkt0) ==
    LET pkt == StampHeader(q, pkt0)
        q1  == [q EXCEPT !.buf = Push(@, pkt),
                         !.curPKtCount = @ + 1,
                         !.maxSliceId = pkt.SliceId,
                         !.curGOPCount = IF IsGopStart(pkt) THEN @ + 1 ELSE @]
    IN  IF IsDuplicate(q, pkt) THEN q ELSE ClearHeaders(SliceEvict(q1, pkt))

----------------------------------------------------------------------------
(* Package slice: the slice queue's cursor *)

SliceNewCursor ==
    [pos |-> 0, gotpos |-> FALSE, preInited |-> FALSE, curHeaderBeginAt |-> 0 - 1,
     TimeOffset |-> 0, hasTimeOffset |-> FALSE,
     SliceStartId |-> 0, SliceSubstreamId |-> {}, SliceStreamBase |-> 0]

SliceCursorBySliceReq(sliceStartId, sliceSubstreamId, sliceStreamBase) ==
    [SliceNewCursor EXCEPT !.SliceStartId = sliceStartId,
                           !.SliceSubstreamId = sliceSubstreamId,
                           !.SliceStreamBase = sliceStreamBase]

SetTimeOffset(c, timeOffset) ==
    [c EXCEPT !.TimeOffset = timeOffset, !.hasTimeOffset = TRUE]

\* cursor.initSlice of the slice queue: the position to start from.
SliceQueueInit(buf, sliceStartId) ==
    LET maxSlicePos == buf.Tail - 1
        maxSliceId  == IF IsValidPos(buf, maxSlicePos) THEN Get(buf, maxSlicePos).SliceId ELSE 0
        minSlicePos == buf.Head
        minSliceId  == IF IsValidPos(buf, minSlicePos) THEN Get(buf, minSlicePos).SliceId ELSE 0
        hit == {i \in minSlicePos..(buf.Tail - 1) : Get(buf, i).SliceId >= sliceStartId}
    IN  IF sliceStartId = 0 \/ sliceStartId >= maxSliceId THEN maxSlicePos
        ELSE IF sliceStartId <= minSliceId THEN minSlicePos
        ELSE IF hit = {} THEN minSlicePos
        ELSE Min(hit)

Abs(n) == IF n < 0 THEN 0 - n ELSE n

\* The backward walk of cursor.initByTimeOffset of the slice queue.
RECURSIVE ScanBackDts(_, _, _, _, _, _)
ScanBackDts(buf, timeOffset, isNegative, latestFrameDts, i, lastKeyFramePos) ==
    IF ~IsValidPos(buf, i)
    THEN [i |-> i, lastKeyFramePos |-> lastKeyFramePos, ret |-> FALSE]
    ELSE LET pkt == Get(buf, i)
         IN  IF pkt.FrameType = "idr" /\ pkt.PosFlag = "start"
             THEN IF latestFrameDts - pkt.FrameDts >= timeOffset
                  THEN IF isNegative /\ lastKeyFramePos < buf.Tail
                          /\ timeOffset - (latestFrameDts - Get(buf, lastKeyFramePos).FrameDts)
                               < latestFrameDts - pkt.FrameDts - timeOffset
                       THEN [i |-> i, lastKeyFramePos |-> lastKeyFramePos, ret |-> TRUE]
                       ELSE [i |-> i, lastKeyFramePos |-> lastKeyFramePos, ret |-> FALSE]
                  ELSE ScanBackDts(buf, timeOffset, isNegative, latestFrameDts, i - 1, i)
             ELSE ScanBackDts(buf, timeOffset, isNegative, latestFrameDts, i - 1,
                              lastKeyFramePos)

\* cursor.initByTimeOffset of the slice queue, as preInitSlice calls it
\* (adjustToLastKeyFrame = true): the position to start from.
TimeOffsetInit(buf, timeOffset) ==
    LET last == buf.Tail - 1
        r == IF IsValidPos(buf, last)
             THEN ScanBackDts(buf, Abs(timeOffset), timeOffset < 0, Get(buf, last).FrameDts,
                              last, buf.Tail)
             ELSE [i |-> last, lastKeyFramePos |-> buf.Tail, ret |-> FALSE]
    IN  IF r.ret THEN r.lastKeyFramePos
        ELSE IF IsValidPos(buf, r.i) THEN r.i
        ELSE r.lastKeyFramePos

SlicePreInit(q, c) ==
    LET p  == IF c.TimeOffset # 0 \/ (c.SliceStreamBase = 0 /\ c.SliceStartId = 0)
              THEN TimeOffsetInit(q.buf, c.TimeOffset)
              ELSE SliceQueueInit(q.buf, c.SliceStartId)
        ok == IsValidPos(q.buf, p)
    IN  [c   |-> [c EXCEPT !.pos = p, !.gotpos = ok, !.preInited = ok],
         out |-> IF ok THEN "ok" ELSE IF q.closed THEN "eof" ELSE "wait"]

IsReqSubStreamId(c, sliceId) == (sliceId % c.SliceStreamBase) \in c.SliceSubstreamId

\* The for loop of the slice queue's ReadPacket, up to its next cond.Wait or return.
RECURSIVE SliceLoop(_, _, _)
SliceLoop(q, c0, loss0) ==
    LET buf   == q.buf
        loss  == IF LT(c0.pos, buf.Head) THEN AddLoss(loss0, buf.Head - c0.pos) ELSE loss0
        c1    == IF GT(c0.pos, buf.Tail) THEN [c0 EXCEPT !.pos = buf.Tail] ELSE c0
        reinit == LT(c1.pos, buf.Head)
        c2    == IF reinit
                 THEN [c1 EXCEPT !.pos = buf.Head + 1,
                                 !.gotpos = IsValidPos(buf, buf.Head + 1)]
                 ELSE c1
    IN  IF reinit /\ ~c2.gotpos
        THEN Outcome(c2, loss, IF q.closed THEN "eof" ELSE "reinitWait", SliceZeroPkt, c2.pos)
        ELSE IF CanFetch(buf, c2.pos)
        THEN LET pktTmp == Get(buf, c2.pos)
                 get    == c2.SliceStreamBase = 0 \/ IsReqSubStreamId(c2, pktTmp.SliceId)
                 c3     == [c2 EXCEPT !.pos = @ + 1]
                 m      == MarkHeader(c3, pktTmp)
             IN  IF get
                 THEN Outcome(m.c, loss, "pkt", m.pkt, c2.pos)
                 ELSE SliceLoop(q, c3, loss)
        ELSE Outcome(c2, loss, IF q.closed THEN "eof" ELSE "tailWait", SliceZeroPkt, c2.pos)

\* QueueCursor.ReadPacket of the slice queue.
SliceReadPacket(q, c, pre) ==
    IF pre
    THEN LET p == SlicePreInit(q, c)
         IN  IF p.out = "ok"
             THEN [r |-> SliceLoop(q, p.c, q.lossPktCount), leak |-> FALSE]
             ELSE [r |-> Outcome(p.c, q.lossPktCount,
                                 IF p.out = "eof" THEN "eof" ELSE "preWait", SliceZeroPkt,
                                 p.c.pos),
                   leak |-> FALSE]
    ELSE [r |-> SliceLoop(q, c, q.lossPktCount), leak |-> FALSE]
----------------------------------------------------------------------------
(* The queues with their producer and their cursors *)

\* <<max_gop_count, max_pkt_count>> set on the main queue before the first write.
Limits ==
    {<<DefaultGopCount, DefaultPktCount>>, <<2, DefaultPktCount>>, <<DefaultGopCount, 3>>}

CursorChoices ==
    {CursorByDelayedFrame(s, t) : s \in {0, 1}, t \in {0, 1}}
      \cup {CursorBySliceReq(i, 0, b) : i \in {0, 3}, b \in {0, 2}}

\* <<max_pkt_count, max_cache_time>> set on the slice queue before the first write.
SliceLimits == {<<SliceDefaultPktCount, DefaultCacheTimeMax>>, <<3, DefaultCacheTimeMax>>,
                <<SliceDefaultPktCount, 1>>}

\* A slice cursor without SetTimeOffset is given a start id or a stream
\* base: preInitSlice calls the unset initByTimeOffset otherwise.
SliceCursorChoices ==
    {SetTimeOffset(SliceCursorBySliceReq(0, {}, 0), t) : t \in {0, 1}}
      \cup {SliceCursorBySliceReq(2, {}, 0), SliceCursorBySliceReq(0, {0}, 2)}

WaitStates == {"preWait", "reinitWait", "tailWait"}

\* A conn as newConn leaves it, with the outcome of its last operation:
\* op and err, the stage before it, the hook calls it made and the
\* messages it sent.
NoConn ==
    [IsServer |-> FALSE, HasHook |-> FALSE, stage |-> 0, avmsgsid |-> 0,
     publishing |-> FALSE, playing |-> FALSE, reading |-> FALSE, writing |-> FALSE,
     op |-> "none", err |-> "nil", before |-> 0, hookCalls |-> 0, sent |-> <<>>]

\* The goroutines that call Launch.
Launchers == 1..MaxLaunchers

\* An empty stream manager and no Launch in progress.  Per call: the name it
\* was given, where it stands, whether the name was registered when it was
\* issued, whether it started Publish or Pull, and its result (0 for nil,
\* 1 for the error of Publish or Pull, or the code of a typed error).
NoMng ==
    [pkg |-> "pusher", streams |-> {},
     name |-> [l \in Launchers |-> ""], pc |-> [l \in Launchers |-> "idle"],
     registered |-> [l \in Launchers |-> FALSE], ran |-> [l \in Launchers |-> FALSE],
     ret |-> [l \in Launchers |-> 0]]

\* The hook as InitHook leaves it.  The channel is held as the number of
\* events in it and the event sent last; done is the root context, pc, e
\* and out belong to the OnHookEvent call in progress or ended last.
NoHook ==
    [queue |-> [n |-> 0, last |-> 0], closed |-> FALSE, done |-> FALSE,
     pc |-> "idle", e |-> 0, out |-> "none"]

NoLoad == <<>>

NoSlicer == [info |-> [SliceId |-> 0, FrameId |-> 0, SliceSizeMax |-> 0], n |-> 0, frame |-> "none",
     pkts |-> <<>>, parsed |-> <<>>]

NoHandshake == [pc |-> "idle", C0C1 |-> <<>>, S0S1S2 |-> <<>>, err |-> "nil"]

NoDemuxer ==
    [sps |-> "nil", pps |-> "nil", CodecData |-> [SPS |-> <<>>, PPS |-> <<>>],
     pkts |-> <<>>, out |-> <<>>, fed |-> <<>>]

NoHeadersCalls == [c \in Cursors |-> <<>>]

NoChunks == <<>>

NoWriter == <<>>

NoReader == <<>>

NoCache == <<>>

NetIdle ==
    /\ rtmp = NoConn
    /\ mng = NoMng
    /\ hls = NoHook
    /\ lreg = NoLoad
    /\ slc = NoSlicer
    /\ hsk = NoHandshake
    /\ ts = NoDemuxer
    /\ hres = NoHeadersCalls
    /\ chk = NoChunks
    /\ wr = NoWriter
    /\ rp = NoReader
    /\ tsc = NoCache

\* No pump is running.
NoTransport ==
    [variant |-> "none", pc |-> "done", canceled |-> FALSE, n |-> 0, ver |-> 0,
     pkt |-> [n |-> 0, HeaderChanged |-> FALSE, IsHeader |-> FALSE, Drop |-> FALSE, ver |-> 0],
     flagged |-> {}, log |-> <<>>, ret |-> "none",
     top |-> "none", reads |-> <<>>, passed |-> <<>>, trailers |-> 0, lateTrailer |-> FALSE, avret |-> "none"]

InitRest(w, r) ==
    /\ tr = NoTransport
    /\ NetIdle
    /\ gopLen = 0
    /\ cpc = [c \in Cursors |-> "idle"]
    /\ sig = [c \in Cursors |-> FALSE]
    /\ rets = [c \in Cursors |-> <<>>]
    /\ rlocks = 0
    /\ wblocked = FALSE
    /\ wleft = w
    /\ rleft = r

InitMain ==
    /\ sys = "main"
    /\ \E l \in Limits : que = SetMaxPktCount(SetMaxGopCount(NewQueue, l[1]), l[2])
    /\ cur \in [Cursors -> CursorChoices]
    /\ InitRest(MaxWrites, MaxReads)

InitSlice ==
    /\ sys = "slice"
    /\ \E l \in SliceLimits : que = SetMaxCacheTime(SetMaxPktCount(SliceNewQueue, l[1]), l[2])
    /\ cur \in [Cursors -> SliceCursorChoices]
    /\ InitRest(MaxWrites, MaxReads)

\* A writer operation: lock.Lock() parks for ever behind a read lock that
\* was never released; otherwise the operation runs, and its cond.Broadcast
\* reaches every parked cursor.
Writer(q2, broadcast) ==
    IF rlocks > 0
    THEN /\ wblocked' = TRUE
         /\ UNCHANGED <<que, sig>>
    ELSE /\ que' = q2
         /\ sig' = [c \in Cursors |-> sig[c] \/ (broadcast /\ cpc[c] \in WaitStates)]
         /\ UNCHANGED wblocked

\* What a producer hands to the main queue.  A demuxer that saw the codec
\* configuration change flags the packet, and the pump writes the new
\* header to the queue right before that packet.
Inputs(q) ==
    PktInputs \cup
      (IF \E i \in 1..Len(q.headers) : q.headers[i].BeginAt = q.buf.Tail
       THEN {[VideoKey EXCEPT !.HeaderChanged = TRUE]}
       ELSE {})

\* The producer numbers the slices it writes by their sequence.
DoWritePacket ==
    /\ sys = "main" /\ wleft > 0 /\ ~wblocked
    /\ \E pkt \in Inputs(que) :
          Writer(WritePacket(que, [pkt EXCEPT !.SliceId = que.buf.Tail + 1]), TRUE)
    /\ wleft' = wleft - 1
    /\ UNCHANGED <<tr, NetVars, gopLen, sys, cur, cpc, rets, rlocks, rleft>>

DoWriteHeader ==
    /\ sys = "main" /\ wleft > 0 /\ ~wblocked
    /\ \E data \in HeaderInputs : Writer(WriteHeader(que, data), TRUE)
    /\ wleft' = wleft - 1
    /\ UNCHANGED <<tr, NetVars, gopLen, sys, cur, cpc, rets, rlocks, rleft>>

\* Queue.Close of either package.
DoClose ==
    /\ ~que.closed /\ ~wblocked
    /\ Writer(Close(que), TRUE)
    /\ UNCHANGED <<tr, NetVars, gopLen, sys, cur, cpc, rets, rlocks, wleft, rleft>>

\* What a producer hands to the slice queue: the next slice (the start of
\* an IDR frame, a part of a reference frame, an audio slice without
\* timestamp), the last slice again, or a slice after a gap.
SlicePkt(type, frame, flag, id, dts) ==
    [SliceZeroPkt EXCEPT !.SliceType = type, !.FrameType = frame, !.PosFlag = flag,
                         !.SliceId = id, !.FrameDts = dts]

SliceInputs(q) ==
    LET n == q.maxSliceId + 1
    IN  {SlicePkt("video", "idr", "start", n, n), SlicePkt("video", "ref", "end", n, n),
         SlicePkt("audio", "audio", "startend", n, 0),
         SlicePkt("video", "ref", "end", q.maxSliceId, q.maxSliceId),
         SlicePkt("video", "idr", "start", n + 1, n + 1)}

SliceHeaderInputs == {"hdr1", "hdr2"}

DoSliceWritePacket ==
    /\ sys = "slice" /\ wleft > 0 /\ ~wblocked
    /\ \E pkt \in SliceInputs(que) :
          Writer(SliceWritePacket(que, pkt), ~IsDuplicate(que, pkt))
    /\ wleft' = wleft - 1
    /\ UNCHANGED <<tr, NetVars, gopLen, sys, cur, cpc, rets, rlocks, rleft>>

DoSliceWriteHeader ==
    /\ sys = "slice" /\ wleft > 0 /\ ~wblocked
    /\ \E data \in SliceHeaderInputs : Writer(SliceWriteHeader(que, data), TRUE)
    /\ wleft' = wleft - 1
    /\ UNCHANGED <<tr, NetVars, gopLen, sys, cur, cpc, rets, rlocks, rleft>>

Returned(res, q) ==
    [err |-> IF res.r.out = "eof" THEN "EOF" ELSE "nil", at |-> res.r.at,
     pkt |-> res.r.pkt, head |-> q.buf.Head, tail |-> q.buf.Tail]

\* A run of cursor c under the read lock, up to its return or its next cond.Wait.
Run(c, res) ==
    /\ cur' = [cur EXCEPT ![c] = res.r.c]
    /\ que' = [que EXCEPT !.lossPktCount = res.r.loss]
    /\ sig' = [sig EXCEPT ![c] = FALSE]
    /\ IF res.r.out \in {"pkt", "eof"}
       THEN /\ cpc' = [cpc EXCEPT ![c] = "idle"]
            /\ rets' = [rets EXCEPT ![c] = Append(@, Returned(res, que))]
       ELSE /\ cpc' = [cpc EXCEPT ![c] = res.r.out]
            /\ UNCHANGED rets
    /\ rlocks' = IF res.leak THEN rlocks + 1 ELSE rlocks

\* RLock parks for ever once a writer is parked in Lock.
ParkOnLock(c) ==
    /\ cpc' = [cpc EXCEPT ![c] = "lockWait"]
    /\ UNCHANGED <<que, cur, sig, rets, rlocks>>

Read(q, c, pre) ==
    IF sys = "main" THEN ReadPacket(q, c, pre) ELSE SliceReadPacket(q, c, pre)

\* A consumer calls ReadPacket on cursor c.
DoReadPacket(c) ==
    /\ cpc[c] = "idle" /\ rleft > 0
    /\ rleft' = rleft - 1
    /\ IF wblocked
       THEN ParkOnLock(c)
       ELSE Run(c, Read(que, cur[c], ~cur[c].preInited))
    /\ UNCHANGED <<tr, NetVars, gopLen, sys, wblocked, wleft>>

\* cond.Wait of cursor c returns after a Broadcast.
Wake(c) ==
    /\ cpc[c] \in WaitStates /\ sig[c]
    /\ IF wblocked
       THEN ParkOnLock(c)
       ELSE Run(c, Read(que, cur[c], cpc[c] = "preWait"))
    /\ UNCHANGED <<tr, NetVars, gopLen, sys, wblocked, wleft, rleft>>

NextQ ==
    \/ DoWritePacket
    \/ DoWriteHeader
    \/ DoSliceWritePacket
    \/ DoSliceWriteHeader
    \/ DoClose
    \/ \E c \in Cursors : DoReadPacket(c)
    \/ \E c \in Cursors : Wake(c)

InitQ == InitMain \/ InitSlice

SpecQ == InitQ /\ [][NextQ]_vars

----------------------------------------------------------------------------
(* QueueCursor.Headers, of package queue and of package slice *)

\* avutil.RevertHeader: the codec data rebuilt from each header's sequence
\* header tag.
RevertHeader(datas) ==
    [i \in 1..Len(datas) |-> [Type |-> datas[i], SequnceHeaderTag |-> datas[i]]]

\* What Headers hands back for the header list of a queue: codec data in
\* package queue, the header slices themselves in package slice.
CodecDataOf(datas) == IF sys = "main" THEN RevertHeader(datas) ELSE datas

\* The search of Headers through the header list.
MatchingHeader(q, c) ==
    LET at == {i \in 1..Len(q.headers) : q.headers[i].BeginAt = c.curHeaderBeginAt}
    IN  IF at = {} THEN <<>> ELSE CodecDataOf(q.headers[Min(at)].Datas)

\* The part of Headers from its wait loop on.
HeadersLoop(q, c) ==
    IF q.headers = <<>> /\ ~q.closed THEN [out |-> "hdrWait", err |-> "nil", cdata |-> <<>>]
    ELSE IF q.headers # <<>>
    THEN [out |-> "ret", err |-> "nil", cdata |-> MatchingHeader(q, c)]
    ELSE [out |-> "ret", err |-> "EOF", cdata |-> <<>>]

\* A Headers that waits for a header whatever the cursor has delivered.
HeadersAlwaysWaits(q, c) ==
    IF q.closed THEN [out |-> "ret", err |-> "EOF", cdata |-> <<>>]
    ELSE HeadersLoop(q, c)

\* QueueCursor.Headers from its entry.
Headers(q, c) ==
    IF q.closed THEN [out |-> "ret", err |-> "EOF", cdata |-> <<>>]
    ELSE IF c.curHeaderBeginAt = 0 - 1
    THEN [out |-> "ret", err |-> "nil", cdata |-> <<>>]
    ELSE HeadersLoop(q, c)

\* The call of cursor c goes on under the read lock with result r.
RunHeaders(c, r) ==
    IF r.out = "ret"
    THEN /\ hres' = [hres EXCEPT ![c] = Append(@, [err |-> r.err, cdata |-> r.cdata])]
         /\ cpc' = [cpc EXCEPT ![c] = "idle"]
    ELSE /\ cpc' = [cpc EXCEPT ![c] = "hdrWait"]
         /\ UNCHANGED hres

\* A consumer calls Headers on cursor c.
DoHeaders(c) ==
    /\ cpc[c] = "idle" /\ rleft > 0
    /\ rleft' = rleft - 1
    /\ IF wblocked
       THEN cpc' = [cpc EXCEPT ![c] = "lockWait"] /\ UNCHANGED hres
       ELSE RunHeaders(c, Headers(que, cur[c]))
    /\ UNCHANGED <<tr, rtmp, mng, hls, tsc, rp, wr, chk, lreg, slc, hsk, ts, gopLen, sys, que, cur, sig, rets,
                   rlocks, wblocked, wleft>>

\* cond.Wait in Headers returns after the Broadcast of a writer.
WakeHeaders(c) ==
    /\ cpc[c] = "hdrWait"
    /\ que.headers # <<>> \/ que.closed
    /\ IF wblocked
       THEN cpc' = [cpc EXCEPT ![c] = "lockWait"] /\ UNCHANGED hres
       ELSE RunHeaders(c, HeadersLoop(que, cur[c]))
    /\ UNCHANGED <<tr, rtmp, mng, hls, tsc, rp, wr, chk, lreg, slc, hsk, ts, gopLen, sys, que, cur, sig, rets,
                   rlocks, wblocked, wleft, rleft>>

NextHdr ==
    \/ NextQ
    \/ \E c \in Cursors : DoHeaders(c)
    \/ \E c \in Cursors : WakeHeaders(c)

SpecHdr == InitQ /\ [][NextHdr]_vars

----------------------------------------------------------------------------
(* The writer side alone, under every small pair of limits *)

GopLimits == {1, 2, 3, DefaultGopCount}
PktLimits == {1, 2, 3, DefaultPktCount}
CacheTimes == {1, 2, DefaultCacheTimeMax}

InitW ==
    /\ \/ /\ sys = "main"
          /\ \E g \in GopLimits, m \in PktLimits :
                que = SetMaxPktCount(SetMaxGopCount(NewQueue, g), m)
          /\ cur = [c \in Cursors |-> newCursor]
       \/ /\ sys = "slice"
          /\ \E m \in PktLimits, t \in CacheTimes :
                que = SetMaxCacheTime(SetMaxPktCount(SliceNewQueue, m), t)
          /\ cur = [c \in Cursors |-> SliceNewCursor]
    /\ InitRest(MaxWrites + 1, 0)

NextW ==
    \/ DoWritePacket
    \/ DoWriteHeader
    \/ DoSliceWritePacket
    \/ DoSliceWriteHeader
    \/ DoClose

SpecW == InitW /\ [][NextW]_vars

----------------------------------------------------------------------------
(* A producer of whole GOPs: a keyframe followed by GopLen - 1 other frames *)

GopFrames == 60
GopLens == {1, 2, 3, GopFrames}

GopFrame(q, len) == IF q.buf.Tail % len = 0 THEN VideoKey ELSE VideoRef

InitGop ==
    /\ sys = "main"
    /\ gopLen \in GopLens
    /\ \E g \in {1, 2, 3} :
          /\ que = SetMaxGopCount(WriteHeader(NewQueue, <<"H264", "AAC">>), g)
          /\ wleft = (g + 2) * gopLen
    /\ tr = NoTransport
    /\ NetIdle
    /\ cur = [c \in Cursors |-> newCursor]
    /\ cpc = [c \in Cursors |-> "idle"]
    /\ sig = [c \in Cursors |-> FALSE]
    /\ rets = [c \in Cursors |-> <<>>]
    /\ rlocks = 0
    /\ wblocked = FALSE
    /\ rleft = 0

WriteGopFrame ==
    /\ gopLen > 0 /\ wleft > 0
    /\ Writer(WritePacket(que, [GopFrame(que, gopLen) EXCEPT !.SliceId = que.buf.Tail + 1]), TRUE)
    /\ wleft' = wleft - 1
    /\ UNCHANGED <<tr, NetVars, gopLen, sys, cur, cpc, rets, rlocks, rleft>>

NextGop == WriteGopFrame

SpecGop == InitGop /\ [][NextGop]_vars

----------------------------------------------------------------------------
(* A cursor that starts a few frames behind the tail of a default queue *)

DelayedStart == 3

\* The producer has written its first keyframe, no header yet.
InitDelay ==
    /\ sys = "main"
    /\ que = WritePacket(NewQueue, [VideoKey EXCEPT !.SliceId = 1])
    /\ cur = [c \in Cursors |-> CursorByDelayedFrame(DelayedStart, 1)]
    /\ InitRest(MaxWrites + 3, MaxReads)

NextDelay ==
    \/ DoWritePacket
    \/ DoWriteHeader
    \/ \E c \in Cursors : DoReadPacket(c)
    \/ \E c \in Cursors : Wake(c)

SpecDelay == InitDelay /\ [][NextDelay]_vars

(* A slow consumer: a queue of two GOPs whose writer laps the cursor *)

LagGops == 2

\* A queue limited to LagGops GOPs, with or without a header, and a cursor
\* made by CursorByDelayedFrame.
InitLag ==
    /\ sys = "main"
    /\ \E withHeader \in BOOLEAN :
          que = IF withHeader
                THEN WriteHeader(SetMaxGopCount(NewQueue, LagGops), <<"H264", "AAC">>)
                ELSE SetMaxGopCount(NewQueue, LagGops)
    /\ \E s \in {0, 1} : cur = [c \in Cursors |-> CursorByDelayedFrame(s, 0)]
    /\ InitRest(MaxWrites + 2, MaxReads)

SpecLag == InitLag /\ [][NextDelay]_vars

(* Two consumers of one queue: cond.L is lock.RLocker(), so both run their
   read loops under the shared read lock at the same time, and the
   statement lossPktCount += n of each is a load and a store that the
   other's may fall between. *)

Readers == {"c1", "c2"}

InitRace ==
    /\ sys = "main"
    /\ que = WritePacket(WriteHeader(SetMaxGopCount(NewQueue, LagGops), <<"H264", "AAC">>),
                         [VideoKey EXCEPT !.SliceId = 1])
    /\ cur = [c \in Readers |-> CursorByDelayedFrame(0, 0)]
    /\ cpc = [c \in Readers |-> "idle"]
    /\ sig = [c \in Readers |-> FALSE]
    /\ rets = [c \in Readers |-> <<>>]
    /\ lreg = [c \in Readers |-> 0]
    /\ tr = NoTransport
    /\ rtmp = NoConn /\ mng = NoMng /\ hls = NoHook /\ tsc = NoCache /\ rp = NoReader /\ wr = NoWriter /\ chk = NoChunks /\ hres = NoHeadersCalls /\ ts = NoDemuxer /\ hsk = NoHandshake /\ slc = NoSlicer
    /\ gopLen = 0 /\ rlocks = 0 /\ wblocked = FALSE
    /\ wleft = MaxWrites + 1
    /\ rleft = MaxReads + 2

\* Queue.WritePacket: lock.Lock() waits for every reader inside its loop.
RaceWritePacket ==
    /\ wleft > 0
    /\ \A c \in Readers : cpc[c] # "loaded"
    /\ \E pkt \in {VideoKey, Audio} :
          que' = WritePacket(que, [pkt EXCEPT !.SliceId = que.buf.Tail + 1])
    /\ sig' = [c \in Readers |-> sig[c] \/ cpc[c] \in WaitStates]
    /\ wleft' = wleft - 1
    /\ UNCHANGED <<tr, rtmp, mng, hls, tsc, rp, wr, chk, hres, ts, hsk, slc, lreg, gopLen, sys, cur, cpc, rets, rlocks, wblocked,
                   rleft>>

\* Cursor c enters the loop of readWholePacket, from a call or from
\* cond.Wait.  Behind the head it loads lossPktCount for the +=; otherwise
\* the pass does not touch the counter.
RaceEnter(c) ==
    /\ \/ cpc[c] = "idle" /\ rleft > 0 /\ rleft' = rleft - 1
       \/ cpc[c] \in WaitStates /\ sig[c] /\ rleft' = rleft
    /\ IF cur[c].preInited /\ LT(cur[c].pos, que.buf.Head)
       THEN /\ lreg' = [lreg EXCEPT ![c] = que.lossPktCount]
            /\ cpc' = [cpc EXCEPT ![c] = "loaded"]
            /\ UNCHANGED <<que, cur, sig, rets, rlocks>>
       ELSE /\ Run(c, readWholePacket(que, cur[c], ~cur[c].preInited))
            /\ UNCHANGED lreg
    /\ UNCHANGED <<tr, rtmp, mng, hls, tsc, rp, wr, chk, hres, ts, hsk, slc, gopLen, sys, wblocked, wleft>>

\* Cursor c stores the sum and goes on through the loop.
RaceStore(c) ==
    /\ cpc[c] = "loaded"
    /\ Run(c, [r |-> LoopWhole(que, cur[c], lreg[c]), leak |-> FALSE])
    /\ UNCHANGED <<tr, rtmp, mng, hls, tsc, rp, wr, chk, hres, ts, hsk, slc, lreg, gopLen, sys, wblocked, wleft, rleft>>

NextRace ==
    \/ RaceWritePacket
    \/ \E c \in Readers : RaceEnter(c)
    \/ \E c \in Readers : RaceStore(c)

SpecRace == InitRace /\ [][NextRace]_vars

----------------------------------------------------------------------------
(* Package slice: cutting a frame into slices, and the 15-byte slice header *)

KSliceDefaultSizeMax == 1280
KSliceHeaderSize == 15
KSliceSizeThreshold == 3072
KSliceExtendFlag == 0

SLICE_TYPE_AUDIO == 2
SLICE_TYPE_VIDEO == 3
SLICE_FRAME_TYPE_AUDIO == 0
SLICE_FRAME_TYPE_IDR == 1
SLICE_FRAME_TYPE_REF == 2
SLICE_POSFLAG_MIDDLE == 0
SLICE_POSFLAG_START == 1
SLICE_POSFLAG_END == 2
SLICE_POSFLAG_STARTEND == 3

\* Big-endian integers.  The ids of the runs modelled here stay below 2^31,
\* so the high four bytes of a uint64 are zero.
RECURSIVE BigEndian(_)
BigEndian(b) ==
    IF b = <<>> THEN 0 ELSE BigEndian(SubSeq(b, 1, Len(b) - 1)) * 256 + b[Len(b)]

Uint16ToBytes(i) == <<(i \div 256) % 256, i % 256>>
BytesToUint16(b) == BigEndian(b)
Uint32ToBytes(i) ==
    <<(i \div 16777216) % 256, (i \div 65536) % 256, (i \div 256) % 256, i % 256>>
BytesToUint32(b) == BigEndian(b)
Uint64ToBytes(i) == <<0, 0, 0, 0>> \o Uint32ToBytes(i)
BytesToUint64(b) == BigEndian(b)

\* A header that leaves the slice type out of its first two bytes.
makeSliceHeaderNoType(pkt) ==
    Uint16ToBytes((pkt.Size * 16) % 65536)
      \o Uint64ToBytes(pkt.SliceId) \o Uint32ToBytes(pkt.FrameId)
      \o <<(pkt.PosFlag * 64 + pkt.FrameType * 16 + pkt.ExtendFlag) % 256>>

\* makeSliceHeader: size (12 bits) and type (4 bits), slice id, frame id,
\* then posFlag, frameType and the extend flag in one byte.
makeSliceHeader(pkt) ==
    Uint16ToBytes((pkt.Size * 16 + pkt.SliceType) % 65536)
      \o Uint64ToBytes(pkt.SliceId) \o Uint32ToBytes(pkt.FrameId)
      \o <<(pkt.PosFlag * 64 + pkt.FrameType * 16 + pkt.ExtendFlag) % 256>>

\* ParseSliceHeader on the first 15 bytes of a slice.
ParseSliceHeader(data) ==
    LET sizeType == BytesToUint16(SubSeq(data, 1, 2))
        lastByte == data[15]
        size     == sizeType \div 16
    IN  [Size |-> size, SliceType |-> sizeType % 16,
         SliceId |-> BytesToUint64(SubSeq(data, 3, 10)),
         FrameId |-> BytesToUint32(SubSeq(data, 11, 14)),
         PosFlag |-> lastByte \div 64, FrameType |-> (lastByte \div 16) % 4,
         Reserved |-> 0, ExtendFlag |-> lastByte % 2,
         err |-> IF size > KSliceSizeThreshold THEN "too big" ELSE "nil"]

\* The frames handed to GenerateSlice: video key and reference frames, audio,
\* and a packet of neither type.
FrameKinds == {"videoKey", "videoRef", "audio", "script"}

\* Slice i (from 0) of the sliceCnt slices of a frame of dataSize bytes.  Data
\* is the header followed by bytes [from, to) of the frame.
OneSlice(s, dataSize, frame, sliceCnt, i) ==
    LET base     == dataSize \div sliceCnt
        overSize == dataSize - base * sliceCnt
        size     == IF i < overSize THEN base + 1 ELSE base
        start    == i * base + Min({i, overSize})
        flds     == [Size |-> (KSliceHeaderSize + size) % 65536,
                     SliceType |-> IF frame \in {"videoKey", "videoRef"} THEN SLICE_TYPE_VIDEO
                                   ELSE IF frame = "audio" THEN SLICE_TYPE_AUDIO ELSE 0,
                     SliceId |-> s.SliceId + i,
                     FrameId |-> s.FrameId,
                     PosFlag |-> IF sliceCnt = 1 THEN SLICE_POSFLAG_STARTEND
                                 ELSE IF i = 0 THEN SLICE_POSFLAG_START
                                 ELSE IF i = sliceCnt - 1 THEN SLICE_POSFLAG_END
                                 ELSE SLICE_POSFLAG_MIDDLE,
                     FrameType |-> IF frame = "videoKey" THEN SLICE_FRAME_TYPE_IDR
                                   ELSE IF frame = "videoRef" THEN SLICE_FRAME_TYPE_REF
                                   ELSE IF frame = "audio" THEN SLICE_FRAME_TYPE_AUDIO ELSE 0,
                     Reserved |-> 0, ExtendFlag |-> KSliceExtendFlag]
    IN  [flds |-> flds,
         Data |-> [header |-> makeSliceHeader(flds), from |-> start, to |-> start + size]]

\* DataSliceInfo.GenerateSlice: the slices and the slicer afterwards.
GenerateSlice(s, dataSize, frame) ==
    LET sliceCnt == (dataSize + s.SliceSizeMax - 1) \div s.SliceSizeMax
    IN  [pkts |-> [i \in 1..sliceCnt |-> OneSlice(s, dataSize, frame, sliceCnt, i - 1)],
         info |-> [s EXCEPT !.SliceId = @ + sliceCnt, !.FrameId = @ + 1]]

\* Frame sizes around the multiples of the slice size; 5003 is the frame of
\* TestSlice.
FrameSizes == {1, 2, 1279, 1280, 1281, 2559, 2560, 2561, 3841, 5003}
FirstSliceIds == {0, 255, 256, 65535, 16777215, 2147480000}
FirstFrameIds == {0, 255, 65535, 2147480000}

\* NewDataSliceInfo, with the clock's second and the frames cut so far left open.
InitSlicer ==
    /\ \E id \in FirstSliceIds, f \in FirstFrameIds :
          slc = [NoSlicer EXCEPT !.info = [SliceId |-> id, FrameId |-> f,
                                            SliceSizeMax |-> KSliceDefaultSizeMax]]
    /\ tr = NoTransport
    /\ rtmp = NoConn /\ mng = NoMng /\ hls = NoHook /\ tsc = NoCache /\ rp = NoReader /\ wr = NoWriter /\ chk = NoChunks /\ hres = NoHeadersCalls /\ ts = NoDemuxer /\ hsk = NoHandshake /\ lreg = NoLoad
    /\ gopLen = 0
    /\ sys = "main"
    /\ que = NewQueue
    /\ cur = [c \in Cursors |-> newCursor]
    /\ cpc = [c \in Cursors |-> "idle"]
    /\ sig = [c \in Cursors |-> FALSE]
    /\ rets = [c \in Cursors |-> <<>>]
    /\ rlocks = 0
    /\ wblocked = FALSE
    /\ wleft = 0
    /\ rleft = 0

\* The packager cuts one frame.
DoGenerateSlice ==
    /\ slc.frame = "none"
    /\ \E n \in FrameSizes, frame \in FrameKinds :
          LET g == GenerateSlice(slc.info, n, frame)
          IN  slc' = [slc EXCEPT !.info = g.info, !.n = n, !.frame = frame, !.pkts = g.pkts]
    /\ UNCHANGED <<tr, BufferVars, rtmp, mng, hls, lreg, hsk, ts, hres, chk, wr, rp, tsc>>

\* A receiver parses the header of the next slice.
DoParseSliceHeader ==
    /\ Len(slc.parsed) < Len(slc.pkts)
    /\ slc' = [slc EXCEPT !.parsed =
                  Append(@, ParseSliceHeader(slc.pkts[Len(slc.parsed) + 1].Data.header))]
    /\ UNCHANGED <<tr, BufferVars, rtmp, mng, hls, lreg, hsk, ts, hres, chk, wr, rp, tsc>>

NextSlicer ==
    \/ DoGenerateSlice
    \/ DoParseSliceHeader

SpecSlicer == InitSlicer /\ [][NextSlicer]_vars

----------------------------------------------------------------------------
(* RTMP handshake of the server, byte by byte *)

\* The length of C1, C2, S1 and S2.
HsBlock == 1536

\* A byte written by rand.Read or by the HMAC digest.
Opaque == 256

Zeros(n) == [i \in 1..n |-> 0]

\* The C1 blocks a peer sends: time, version, then 1528 bytes.
PeerTimes == {<<0, 0, 0, 0>>, <<0, 0, 1, 2>>, <<1, 2, 3, 4>>}
PeerVersions == {<<0, 0, 0, 0>>, <<9, 0, 124, 2>>, <<0, 0, 0, 1>>}
PeerFill == {0, 7, 255}
PeerC1 ==
    {t \o v \o [i \in 1..(HsBlock - 8) |-> IF f = 7 THEN i % 256 ELSE f] :
        t \in PeerTimes, v \in PeerVersions, f \in PeerFill}

\* hsCreate01 on S0S1 and hsCreate2 on S2: version 3, the peer's time, the
\* server's version 0x0d0e0a0d, random bytes and digests.
DigestS0S1S2(clitime) ==
    <<3>> \o clitime \o <<13, 14, 10, 13>> \o [i \in 1..(HsBlock - 8) |-> Opaque]
          \o [i \in 1..HsBlock |-> Opaque]

\* The echo branch: copy(S1, C1); copy(S2, C2).
Echo(C1, C2) == <<3>> \o C1 \o C2

\* HandshakeServer up to the write of S0S1S2.  C0C1C2 and S0S1S2 are slices
\* of one zeroed array; C2 is read from the peer only after S0S1S2 is sent.
HandshakeServerReply(C0C1, digestOk) ==
    LET C0 == C0C1[1]
        C1 == SubSeq(C0C1, 2, HsBlock + 1)
        C2 == Zeros(HsBlock)
        clitime == SubSeq(C1, 1, 4)
        cliver  == BigEndian(SubSeq(C1, 5, 8))
    IN  IF C0 # 3 THEN [err |-> "err", S0S1S2 |-> <<>>]
        ELSE IF cliver # 0
        THEN IF digestOk THEN [err |-> "nil", S0S1S2 |-> DigestS0S1S2(clitime)]
             ELSE [err |-> "err", S0S1S2 |-> <<>>]
        ELSE [err |-> "nil", S0S1S2 |-> Echo(C1, C2)]

InitHandshake ==
    /\ hsk = NoHandshake
    /\ tr = NoTransport
    /\ rtmp = NoConn /\ mng = NoMng /\ hls = NoHook /\ tsc = NoCache /\ rp = NoReader /\ wr = NoWriter /\ chk = NoChunks /\ hres = NoHeadersCalls /\ ts = NoDemuxer /\ lreg = NoLoad /\ slc = NoSlicer
    /\ gopLen = 0
    /\ sys = "main"
    /\ que = NewQueue
    /\ cur = [c \in Cursors |-> newCursor]
    /\ cpc = [c \in Cursors |-> "idle"]
    /\ sig = [c \in Cursors |-> FALSE]
    /\ rets = [c \in Cursors |-> <<>>]
    /\ rlocks = 0
    /\ wblocked = FALSE
    /\ wleft = 0
    /\ rleft = 0

\* The server reads C0C1 and answers with S0S1S2.
HsReadC0C1 ==
    /\ hsk.pc = "idle"
    /\ \E C0 \in {3, 6}, C1 \in PeerC1, digestOk \in BOOLEAN, io \in Errs :
          LET r == HandshakeServerReply(<<C0>> \o C1, digestOk)
          IN  hsk' = IF r.err = "nil" /\ io = "nil"
                     THEN [hsk EXCEPT !.pc = "sent", !.C0C1 = <<C0>> \o C1,
                                      !.S0S1S2 = r.S0S1S2]
                     ELSE [hsk EXCEPT !.pc = "done", !.C0C1 = <<C0>> \o C1, !.err = "err"]
    /\ UNCHANGED <<tr, BufferVars, rtmp, mng, hls, lreg, slc, ts, hres, chk, wr, rp, tsc>>

\* The server reads C2 and the handshake is over.
HsReadC2 ==
    /\ hsk.pc = "sent"
    /\ \E io \in Errs :
          hsk' = [hsk EXCEPT !.pc = "done", !.err = io]
    /\ UNCHANGED <<tr, BufferVars, rtmp, mng, hls, lreg, slc, ts, hres, chk, wr, rp, tsc>>

NextHandshake ==
    \/ HsReadC0C1
    \/ HsReadC2

SpecHandshake == InitHandshake /\ [][NextHandshake]_vars

----------------------------------------------------------------------------
(* Package ts: the demuxer's H.264 stream *)

MaxPayloads == 2
MaxNalus == 3

\* The NAL units of an input: two parameter sets of each kind, an IDR slice
\* and a non-IDR slice.
Nalus == {"sps1", "sps2", "pps1", "pps2", "idr", "p"}

NALU_SPS == 7
NALU_PPS == 8

\* nalu[0] & 0x1f
NalType(nalu) ==
    IF nalu \in {"sps1", "sps2"} THEN NALU_SPS
    ELSE IF nalu \in {"pps1", "pps2"} THEN NALU_PPS
    ELSE IF nalu = "idr" THEN 5 ELSE 1

IsDataNALU(nalu) == NalType(nalu) >= 1 /\ NalType(nalu) <= 5

\* The PES payloads of an input, as lists of NAL units.
Payloads == UNION {[1..n -> Nalus] : n \in 1..MaxNalus}

\* h264parser.NewCodecDataFromSPSAndPPS: the AVCDecoderConfigurationRecord
\* with one SPS and one PPS.
NewCodecDataFromSPSAndPPS(sps, pps) == [SPS |-> <<sps>>, PPS |-> <<pps>>]

\* A stream whose CodecData is nil.
NoCodecData == [SPS |-> <<>>, PPS |-> <<>>]

\* Stream.updateAvcCodec
updateAvcCodec(s) == [s EXCEPT !.CodecData = NewCodecDataFromSPSAndPPS(s.sps, s.pps)]

\* Stream.addPacket
addPacket(s, nalu, iskeyframe, headerChanged) ==
    [s EXCEPT !.pkts = Append(@, [Data |-> nalu, IsKeyFrame |-> iskeyframe,
                                  HeaderChanged |-> headerChanged,
                                  au |-> Len(s.fed)])]

\* A change test that is met by a change of either parameter set.
BothChangedOrOne(spsChange, ppsChange) == spsChange \/ ppsChange

\* The test of payloadEnd for a changed header.
BothChanged(spsChange, ppsChange) == spsChange /\ ppsChange

\* The loop of Stream.payloadEnd over the NAL units of a payload; l holds
\* its locals sps, pps, spsChange and ppsChange.
RECURSIVE NaluLoop(_, _, _, _)
NaluLoop(s, l, nalus, iskeyframe) ==
    IF nalus = <<>> THEN [s |-> s, l |-> l]
    ELSE LET nalu == Head(nalus)
         IN  IF NalType(nalu) = NALU_SPS
             THEN LET ch == s.sps # "nil" /\ nalu # s.sps
                  IN  NaluLoop(IF ch THEN [s EXCEPT !.sps = nalu] ELSE s,
                               [l EXCEPT !.sps = nalu, !.spsChange = @ \/ ch],
                               Tail(nalus), iskeyframe)
             ELSE IF NalType(nalu) = NALU_PPS
             THEN LET ch == s.pps # "nil" /\ nalu # s.pps
                  IN  NaluLoop(IF ch THEN [s EXCEPT !.pps = nalu] ELSE s,
                               [l EXCEPT !.pps = nalu, !.ppsChange = @ \/ ch],
                               Tail(nalus), iskeyframe)
             ELSE IF IsDataNALU(nalu)
             THEN LET both == BothChanged(l.spsChange, l.ppsChange)
                      s1   == IF both THEN updateAvcCodec(s) ELSE s
                      l1   == IF both THEN [l EXCEPT !.spsChange = FALSE, !.ppsChange = FALSE]
                              ELSE l
                  IN  NaluLoop(addPacket(s1, nalu, iskeyframe, both), l1, Tail(nalus),
                               iskeyframe)
             ELSE NaluLoop(s, l, Tail(nalus), iskeyframe)

\* Stream.payloadEnd for an H.264 stream.
payloadEnd(s, nalus, iskeyframe) ==
    LET r == NaluLoop(s, [sps |-> "nil", pps |-> "nil", spsChange |-> FALSE,
                          ppsChange |-> FALSE], nalus, iskeyframe)
    IN  IF r.s.CodecData = NoCodecData /\ r.l.sps # "nil" /\ r.l.pps # "nil"
        THEN updateAvcCodec([r.s EXCEPT !.sps = r.l.sps, !.pps = r.l.pps])
        ELSE r.s

InitTS ==
    /\ ts = NoDemuxer
    /\ tr = NoTransport
    /\ rtmp = NoConn /\ mng = NoMng /\ hls = NoHook /\ tsc = NoCache /\ rp = NoReader /\ wr = NoWriter /\ chk = NoChunks /\ hres = NoHeadersCalls /\ lreg = NoLoad /\ slc = NoSlicer
    /\ hsk = NoHandshake
    /\ gopLen = 0
    /\ sys = "main"
    /\ que = NewQueue
    /\ cur = [c \in Cursors |-> newCursor]
    /\ cpc = [c \in Cursors |-> "idle"]
    /\ sig = [c \in Cursors |-> FALSE]
    /\ rets = [c \in Cursors |-> <<>>]
    /\ rlocks = 0
    /\ wblocked = FALSE
    /\ wleft = 0
    /\ rleft = 0

\* The demuxer has read a whole PES payload of the video stream.
TsPayloadEnd ==
    /\ Len(ts.fed) < MaxPayloads
    /\ \E nalus \in Payloads, iskeyframe \in BOOLEAN :
          ts' = payloadEnd([ts EXCEPT !.fed = Append(@, nalus)], nalus, iskeyframe)
    /\ UNCHANGED <<tr, BufferVars, rtmp, mng, hls, lreg, slc, hsk, hres, chk, wr, rp, tsc>>

\* Demuxer.ReadPacket: probe needs the codec data, then the oldest packet.
TsReadPacket ==
    /\ ts.CodecData # NoCodecData /\ ts.pkts # <<>>
    /\ ts' = [ts EXCEPT !.pkts = Tail(@), !.out = Append(@, Head(ts.pkts))]
    /\ UNCHANGED <<tr, BufferVars, rtmp, mng, hls, lreg, slc, hsk, hres, chk, wr, rp, tsc>>

NextTS ==
    \/ TsPayloadEnd
    \/ TsReadPacket

SpecTS == InitTS /\ [][NextTS]_vars

\* A demuxer that has read a first access unit with SPS, PPS and an IDR slice
\* and has built its codec data from them; the payloads fed are counted from
\* here on.
InitTSBuilt ==
    /\ ts = [payloadEnd(NoDemuxer, <<"sps1", "pps1", "idr">>, TRUE) EXCEPT !.fed = <<>>]
    /\ tr = NoTransport
    /\ rtmp = NoConn /\ mng = NoMng /\ hls = NoHook /\ tsc = NoCache /\ rp = NoReader /\ wr = NoWriter /\ chk = NoChunks
    /\ hres = NoHeadersCalls /\ lreg = NoLoad /\ slc = NoSlicer
    /\ hsk = NoHandshake
    /\ gopLen = 0
    /\ sys = "main"
    /\ que = NewQueue
    /\ cur = [c \in Cursors |-> newCursor]
    /\ cpc = [c \in Cursors |-> "idle"]
    /\ sig = [c \in Cursors |-> FALSE]
    /\ rets = [c \in Cursors |-> <<>>]
    /\ rlocks = 0
    /\ wblocked = FALSE
    /\ wleft = 0
    /\ rleft = 0

SpecTSBuilt == InitTSBuilt /\ [][NextTS]_vars

-----------------------------------------------------------------------------
(* Package rtmp: the chunk reader of a conn *)

\* Chunk stream ids the peer uses.
Csids == {3, 4}
\* Message lengths the peer announces in a type 0 or type 1 header; a type 3
\* chunk on a fresh chunk stream starts a message of length 0.
MsgLens == {4}
\* Chunk sizes: the one of NewConn and one a SetChunkSize of the peer carries.
DefaultChunkSize == 128
ChunkSizes == {3, DefaultChunkSize}
\* Window sizes readAckSize holds: 0 until the peer announces one.
AckSizes == {0, 8}
\* The 24 bit timestamp field: a plain value, and the escape to 32 bits.
TimeExtended == 16777215
TimeFields == {7, TimeExtended}
\* The extended timestamp the peer sends after the escape.
ExtTime == 16777216
msgtypeidSetChunkSize == 1
msgtypeidVideoMsg == 9
msgtypeidWindowAckSize == 5
msgtypeidCommandMsgAMF0 == 20
MsgTypeIds == {msgtypeidSetChunkSize, msgtypeidVideoMsg}
\* What handleCommandMsgAMF0 finds in a command message: a command name, or
\* bytes that do not parse.
Commands == {"bad", "_result", "onBWDone"}
\* Chunks read from one connection.
MaxChunks == 4

\* A chunkStream as readcsmap creates it on the first chunk of its id.
NewChunkStream ==
    [timenow |-> 0, timedelta |-> 0, hastimeext |-> FALSE, msgsid |-> 0, msgtypeid |-> 0,
     msgdatalen |-> 0, msgdataleft |-> 0, msghdrtype |-> 0, msgdata |-> <<>>]

\* chunkStream.Start: a fresh buffer of msgdatalen bytes, all of them to read.
StartKeepsLeft(cs) == [cs EXCEPT !.msgdata = Zeros(cs.msgdatalen)]
Start(cs) == [cs EXCEPT !.msgdataleft = cs.msgdatalen, !.msgdata = Zeros(cs.msgdatalen)]

\* The timestamp a header carries, and the bytes the field takes on the wire.
ReadTime(t) == IF t = TimeExtended THEN ExtTime ELSE t
TimeBytes(t) == IF t = TimeExtended THEN 4 ELSE 0

\* The switch on msghdrtype of readChunk: the chunk stream after the header,
\* the bytes n read, the bytes discarded after a Peek, and the error.
readHeader(cs, in) ==
    LET bad == [cs |-> cs, n |-> 1, skip |-> 0, err |-> "chunk invalid"]
        ok(c, k, s) == [cs |-> c, n |-> 1 + k, skip |-> s, err |-> "nil"]
        t == ReadTime(in.time)
    IN  CASE in.msghdrtype = 0 ->
               IF cs.msgdataleft # 0 THEN bad
               ELSE ok(Start([cs EXCEPT !.msghdrtype = 0, !.msgdatalen = in.msgdatalen,
                                        !.msgtypeid = in.msgtypeid, !.msgsid = in.msgsid,
                                        !.hastimeext = (in.time = TimeExtended),
                                        !.timenow = t]),
                       11 + TimeBytes(in.time), 0)
          [] in.msghdrtype = 1 ->
               IF cs.msgdataleft # 0 THEN bad
               ELSE ok(Start([cs EXCEPT !.msghdrtype = 1, !.msgdatalen = in.msgdatalen,
                                        !.msgtypeid = in.msgtypeid,
                                        !.hastimeext = (in.time = TimeExtended),
                                        !.timedelta = t, !.timenow = @ + t]),
                       7 + TimeBytes(in.time), 0)
          [] in.msghdrtype = 2 ->
               IF cs.msgdataleft # 0 THEN bad
               ELSE ok(Start([cs EXCEPT !.msghdrtype = 2,
                                        !.hastimeext = (in.time = TimeExtended),
                                        !.timedelta = t, !.timenow = @ + t]),
                       3 + TimeBytes(in.time), 0)
          [] OTHER ->
               IF cs.msgdataleft = 0
               THEN IF cs.msghdrtype = 0
                    THEN IF cs.hastimeext
                         THEN ok(Start([cs EXCEPT !.timenow = ExtTime]), 4, 0)
                         ELSE ok(Start(cs), 0, 0)
                    ELSE IF cs.hastimeext
                         THEN ok(Start([cs EXCEPT !.timenow = @ + ExtTime]), 4, 0)
                         ELSE ok(Start([cs EXCEPT !.timenow = @ + cs.timedelta]), 0, 0)
               ELSE IF cs.hastimeext /\ in.repeated /\ cs.timenow > 0
                    THEN ok(cs, 0, 4)
                    ELSE ok(cs, 0, 0)

\* conn.handleMsg for the message of chunk stream cs: SetChunkSize stores the
\* size its payload carries (in.size) and returns before gotmsg; a command
\* sets gotcommand unless its bytes do not parse (in.command); a video
\* message fails when its tag header does not parse (in.tagerr); any other
\* type, WindowAckSize among them, only sets gotmsg.
handleMsg(c, csid, cs, in) ==
    LET m == [csid |-> csid, timestamp |-> cs.timenow, msgsid |-> cs.msgsid,
              msgtypeid |-> cs.msgtypeid, msgdatalen |-> cs.msgdatalen, msgdata |-> cs.msgdata,
              u32 |-> in.size]
        d == [c EXCEPT !.msgs = Append(@, m)]
    IN  CASE cs.msgtypeid = msgtypeidSetChunkSize ->
               IF Len(cs.msgdata) < 4
               THEN [d EXCEPT !.err = "short packet"]
               ELSE [d EXCEPT !.readMaxChunkSize = in.size]
          [] cs.msgtypeid = msgtypeidCommandMsgAMF0 ->
               IF in.command = "bad"
               THEN [d EXCEPT !.err = "command"]
               ELSE [d EXCEPT !.commandname = in.command, !.gotcommand = TRUE, !.gotmsg = TRUE]
          [] cs.msgtypeid = msgtypeidVideoMsg ->
               IF Len(cs.msgdata) = 0 THEN d
               ELSE IF in.tagerr = "err" THEN [d EXCEPT !.err = "tag"]
               ELSE [d EXCEPT !.gotmsg = TRUE]
          [] OTHER -> [d EXCEPT !.gotmsg = TRUE]

\* The end of readChunk: count the bytes of the chunk and acknowledge them
\* once they exceed the window of the peer.
countAck(c, n, in) ==
    LET a == c.ackn + n
    IN  IF c.readAckSize # 0 /\ a > c.readAckSize
        THEN IF in.ackerr = "err"
             THEN [c EXCEPT !.ackn = a, !.err = "write ack"]
             ELSE [c EXCEPT !.ackn = 0, !.acks = Append(@, a)]
        ELSE [c EXCEPT !.ackn = a]

\* conn.readChunk on the chunk `in` of the peer. The bytes of the wire are
\* numbered from 1 in the order the peer sent them; recv is the chunk the
\* debug line of the reader reports.
readChunk(c, in) ==
    LET cs0 == c.readcsmap[in.csid]
        h == readHeader(cs0, in)
        cs == h.cs
        size == Min({cs.msgdataleft, c.readMaxChunkSize})
        off == cs.msgdatalen - cs.msgdataleft
        first == c.wire + h.n + h.skip
        buf == [i \in 1..cs.msgdatalen |->
                   IF i > off /\ i <= off + size THEN first + (i - off) ELSE cs.msgdata[i]]
        cs2 == [cs EXCEPT !.msgdata = buf, !.msgdataleft = @ - size]
        n == h.n + size
        rd == [c EXCEPT !.readcsmap[in.csid] = cs2, !.wire = first + size, !.chunks = @ + 1,
                        !.recv = [csid |-> in.csid, msghdrtype |-> in.msghdrtype,
                                  left |-> cs0.msgdataleft, size |-> size,
                                  max |-> c.readMaxChunkSize]]
        hm == IF cs2.msgdataleft = 0 THEN handleMsg(rd, in.csid, cs2, in) ELSE rd
    IN  IF h.err # "nil"
        THEN [c EXCEPT !.err = h.err, !.wire = @ + h.n, !.chunks = @ + 1,
                       !.recv = [csid |-> in.csid, msghdrtype |-> in.msghdrtype,
                                 left |-> cs0.msgdataleft, size |-> 0,
                                 max |-> c.readMaxChunkSize]]
        ELSE IF hm.err # "nil" THEN hm
        ELSE countAck(hm, n, in)

\* The chunks the peer can send next on chunk stream id: a header of type
\* 0 or 1 with all its fields, of type 2 with a timestamp, of type 3 bare.
ChunkHeaders(id, types, times) ==
    LET base == [csid |-> id, msghdrtype |-> 3, time |-> 0, msgdatalen |-> 0,
                 msgtypeid |-> 0, msgsid |-> 1, repeated |-> FALSE]
    IN  { [base EXCEPT !.msghdrtype = f, !.time = t, !.msgdatalen = l, !.msgtypeid = ty]
            : f \in {0, 1}, t \in times, l \in MsgLens, ty \in types }
        \cup { [base EXCEPT !.msghdrtype = 2, !.time = t] : t \in times }
        \cup { base }

\* What else the peer and the network decide while readChunk runs: whether
\* the payload of a continued chunk repeats the extended timestamp, the
\* number a SetChunkSize or a WindowAckSize carries, the command of a command
\* message, whether a tag header parses, whether writeAck fails. Each is
\* chosen only where readChunk reads it.
ChunkRest(c, hd) ==
    LET cs0 == c.readcsmap[hd.csid]
        cs == readHeader(cs0, [hd EXCEPT !.repeated = FALSE]).cs
        ends == cs.msgdataleft <= c.readMaxChunkSize
        peeks == hd.msghdrtype = 3 /\ cs0.msgdataleft # 0 /\ cs0.hastimeext
        sets == ends /\ cs.msgtypeid = msgtypeidSetChunkSize /\ cs.msgdatalen >= 4
        window == ends /\ cs.msgtypeid = msgtypeidWindowAckSize /\ cs.msgdatalen >= 4
        commands == ends /\ cs.msgtypeid = msgtypeidCommandMsgAMF0
        parses == ends /\ cs.msgtypeid = msgtypeidVideoMsg /\ cs.msgdatalen > 0
        acks == c.readAckSize # 0
    IN  { [repeated |-> r, size |-> z, command |-> k, tagerr |-> e, ackerr |-> a]
            : r \in (IF peeks THEN BOOLEAN ELSE {FALSE}),
              z \in (IF sets THEN ChunkSizes
                     ELSE IF window THEN AckSizes \ {0} ELSE {0}),
              k \in (IF commands THEN Commands ELSE {"none"}),
              e \in (IF parses THEN Errs ELSE {"nil"}),
              a \in (IF acks THEN Errs ELSE {"nil"}) }

\* The chunk reader after pollMsg has read one more chunk of the peer, for
\* each chunk the peer can send with these message types and timestamps.
PollChunk(types, times) ==
    { readChunk([chk EXCEPT !.gotmsg = FALSE, !.gotcommand = FALSE],
                [hd EXCEPT !.repeated = rest.repeated] @@ rest)
        : <<hd, rest>> \in UNION { { <<h, r>> : r \in ChunkRest(chk, h) }
                                     : h \in UNION { ChunkHeaders(id, types, times)
                                                       : id \in Csids } } }

\* A conn after newConn, before any chunk.
NewChunks(m, w, connecting) ==
    [readcsmap |-> [id \in Csids |-> NewChunkStream], readMaxChunkSize |-> m,
     readAckSize |-> w, ackn |-> 0, wire |-> 0, msgs |-> <<>>, acks |-> <<>>,
     err |-> "nil", gotmsg |-> FALSE, gotcommand |-> FALSE, commandname |-> "",
     connecting |-> connecting, windows |-> 0, chunks |-> 0,
     recv |-> [csid |-> 0, msghdrtype |-> 0, left |-> 0, size |-> 0, max |-> m]]

\* A conn after NewConn whose peer has already sent some SetChunkSize and
\* whose connect has stored some window size.
InitChunk ==
    /\ chk \in { NewChunks(m, w, FALSE) : m \in ChunkSizes, w \in AckSizes }
    /\ rtmp = NoConn /\ mng = NoMng /\ hls = NoHook /\ tsc = NoCache /\ rp = NoReader /\ wr = NoWriter /\ hres = NoHeadersCalls /\ ts = NoDemuxer
    /\ hsk = NoHandshake /\ lreg = NoLoad /\ slc = NoSlicer
    /\ tr = NoTransport
    /\ gopLen = 0
    /\ sys = "main"
    /\ que = NewQueue
    /\ cur = [c \in Cursors |-> newCursor]
    /\ cpc = [c \in Cursors |-> "idle"]
    /\ sig = [c \in Cursors |-> FALSE]
    /\ rets = [c \in Cursors |-> <<>>]
    /\ rlocks = 0
    /\ wblocked = FALSE
    /\ wleft = 0
    /\ rleft = 0

\* One turn of the loop of pollMsg: readChunk on the next chunk of the peer.
DoReadChunk ==
    /\ chk.err = "nil"
    /\ chk.chunks < MaxChunks
    /\ ~chk.connecting
    /\ chk' \in PollChunk(MsgTypeIds, TimeFields)
    /\ UNCHANGED <<tr, BufferVars, rtmp, mng, hls, lreg, slc, hsk, ts, hres, wr, rp, tsc>>

NextChunk == DoReadChunk

SpecChunk == InitChunk /\ [][NextChunk]_vars

\* The message types of a session that announces a window: the peer sends
\* WindowAckSize and commands.
AckTypeIds == {msgtypeidWindowAckSize, msgtypeidCommandMsgAMF0}
AckTimes == {7}

\* A conn after newConn: a client about to wait for the result of connect
\* in writeConnect, or a server, which never runs that loop.
InitAck ==
    /\ chk \in { NewChunks(m, 0, k) : m \in ChunkSizes, k \in BOOLEAN }
    /\ rtmp = NoConn /\ mng = NoMng /\ hls = NoHook /\ tsc = NoCache /\ rp = NoReader /\ wr = NoWriter /\ hres = NoHeadersCalls /\ ts = NoDemuxer
    /\ hsk = NoHandshake /\ lreg = NoLoad /\ slc = NoSlicer
    /\ tr = NoTransport
    /\ gopLen = 0
    /\ sys = "main"
    /\ que = NewQueue
    /\ cur = [c \in Cursors |-> newCursor]
    /\ cpc = [c \in Cursors |-> "idle"]
    /\ sig = [c \in Cursors |-> FALSE]
    /\ rets = [c \in Cursors |-> <<>>]
    /\ rlocks = 0
    /\ wblocked = FALSE
    /\ wleft = 0
    /\ rleft = 0

\* What the loop of writeConnect does with the message pollMsg returned: the
\* result of connect ends the loop, a WindowAckSize of four bytes is stored
\* and answered with a WindowAckSize of the client.
connectTurn(c, ok, wrerr) ==
    LET m == c.msgs[Len(c.msgs)]
    IN  IF c.err # "nil" \/ ~c.gotmsg THEN c
        ELSE IF c.gotcommand
        THEN IF c.commandname = "_result"
             THEN IF ok THEN [c EXCEPT !.connecting = FALSE]
                  ELSE [c EXCEPT !.err = "connect failed"]
             ELSE c
        ELSE IF m.msgtypeid = msgtypeidWindowAckSize
        THEN LET st == IF Len(m.msgdata) = 4 THEN [c EXCEPT !.readAckSize = m.u32] ELSE c
             IN  IF wrerr = "err" THEN [st EXCEPT !.err = "write"]
                 ELSE [st EXCEPT !.windows = @ + 1]
        ELSE c

\* One chunk read by the pollMsg of the loop of writeConnect.
ConnectPollMsg ==
    /\ chk.err = "nil"
    /\ chk.chunks < MaxChunks
    /\ chk.connecting
    /\ \E c \in PollChunk(AckTypeIds, AckTimes), ok \in BOOLEAN, wrerr \in Errs :
         chk' = connectTurn(c, ok, wrerr)
    /\ UNCHANGED <<tr, BufferVars, rtmp, mng, hls, lreg, slc, hsk, ts, hres, wr, rp, tsc>>

\* One chunk read by any other pollMsg: of a server, or of a client after
\* connect.
SessionPollMsg ==
    /\ chk.err = "nil"
    /\ chk.chunks < MaxChunks
    /\ ~chk.connecting
    /\ chk' \in PollChunk(AckTypeIds, AckTimes)
    /\ UNCHANGED <<tr, BufferVars, rtmp, mng, hls, lreg, slc, hsk, ts, hres, wr, rp, tsc>>

NextAck == ConnectPollMsg \/ SessionPollMsg

SpecAck == InitAck /\ [][NextAck]_vars

-----------------------------------------------------------------------------
(* Package rtmp: the chunk writer of a conn *)

chunkHeaderLength == 12
FlvTimestampMax == 16777215
msgtypeidAudioMsg == 8
TAG_AUDIO == 8
TAG_VIDEO == 9
\* Tags written on one connection.
MaxTags == 2
\* Payload lengths of a tag: empty, short, and two that together with the
\* headers pass the chunk size of a new conn.
DataLens == {0, 3, 112, 130}
\* Timestamps of a tag, on both sides of the 24 bit field.
TagTimes == {0, 7, FlvTimestampMax - 1, FlvTimestampMax, FlvTimestampMax + 1, 2147483647}

Uint24ToBytes(i) == <<(i \div 65536) % 256, (i \div 256) % 256, i % 256>>
Uint32ToBytesLE(i) == <<i % 256, (i \div 256) % 256, (i \div 65536) % 256, (i \div 16777216) % 256>>
BytesToUint32LE(b) == b[1] + 256 * b[2] + 65536 * b[3] + 16777216 * b[4]

\* Payload byte i of a tag: the bytes are told apart by their position.
DataBytes(n) == [i \in 1..n |-> i]

\* The tags a caller hands to writeAVTag.
Tags ==
    { [Type |-> TAG_VIDEO, FrameType |-> f, AVCPacketType |-> 1, Data |-> DataBytes(n)]
        : f \in {1, 2}, n \in DataLens }
    \cup { [Type |-> TAG_AUDIO, FrameType |-> 0, AVCPacketType |-> 0, Data |-> DataBytes(n)]
            : n \in DataLens }

\* Tag.FillHeader: the subtype prefix of the tag. Video: frame type and codec
\* id 7, the AVC packet type, a 24 bit composition time; audio: the sound
\* format byte of AAC and the AAC packet type.
FillHeader(tag) ==
    IF tag.Type = TAG_VIDEO
    THEN <<tag.FrameType * 16 + 7, tag.AVCPacketType>> \o Uint24ToBytes(0)
    ELSE <<175, 1>>

\* conn.fillChunkHeader: the bytes of a type 0 chunk header.
fillChunkHeader(csid, timestamp, msgtypeid, msgsid, msgdatalen) ==
    <<csid % 64>>
        \o (IF timestamp <= FlvTimestampMax THEN Uint24ToBytes(timestamp)
            ELSE Uint24ToBytes(FlvTimestampMax))
        \o Uint24ToBytes(msgdatalen) \o <<msgtypeid>> \o Uint32ToBytesLE(msgsid)
        \o (IF timestamp > FlvTimestampMax THEN Uint32ToBytes(timestamp) ELSE <<>>)

\* b with the bytes s stored from offset off (0 based) on.
Put(b, off, s) == [i \in DOMAIN b |-> IF i > off /\ i <= off + Len(s) THEN s[i - off] ELSE b[i]]

\* bufw.Write of the bytes s: one more write on the wire, or an error.
BufWrite(w, s, io, what) ==
    IF io = "err" THEN [w EXCEPT !.err = what] ELSE [w EXCEPT !.wire = Append(@, s)]

\* conn.writeSetChunkSize: tmpwbuf hands out the one write buffer of the
\* conn, and the message is built at its start.
writeSetChunkSize(w, size, io) ==
    LET h == fillChunkHeader(2, 0, msgtypeidSetChunkSize, 0, 4)
        b == Put(Put(w.writebuf, 0, h), Len(h), Uint32ToBytes(size))
        n == Len(h) + 4
    IN  BufWrite([w EXCEPT !.writeMaxChunkSize = size, !.writebuf = b],
                 SubSeq(b, 1, n), io, "writeSetChunkSize")

\* conn.writeAVTag: chunk header and tag header are laid out in the write
\* buffer, the chunk size is raised when they and the payload pass it, then
\* the first n bytes of the buffer and the payload are written.
writeAVTag(w, tag, timestamp, io) ==
    LET msgtypeid == IF tag.Type = TAG_AUDIO THEN msgtypeidAudioMsg ELSE msgtypeidVideoMsg
        csid == IF tag.Type = TAG_AUDIO THEN 6 ELSE 7
        data == tag.Data
        actualChunkHeaderLength == chunkHeaderLength + IF timestamp > FlvTimestampMax THEN 4 ELSE 0
        th == FillHeader(tag)
        hdrlen == Len(th)
        ch == fillChunkHeader(csid, timestamp, msgtypeid, w.avmsgsid, hdrlen + Len(data))
        b == Put(Put(w.writebuf, actualChunkHeaderLength, th), 0, ch)
        n == hdrlen + actualChunkHeaderLength
        w0 == [w EXCEPT !.writebuf = b,
                        !.last = [tag |-> tag, timestamp |-> timestamp,
                                  max |-> w.writeMaxChunkSize, before |-> Len(w.wire)]]
        w1 == IF n + Len(data) > w.writeMaxChunkSize
              THEN writeSetChunkSize(w0, n + Len(data), io[1])
              ELSE w0
        w2 == BufWrite(w1, SubSeq(w1.writebuf, 1, n), io[2], "write header")
        w3 == BufWrite(w2, data, io[3], "write data")
    IN  IF w1.err # "nil" THEN w1
        ELSE IF w2.err # "nil" THEN w2
        ELSE w3

\* The start of readChunk on the bytes b of a peer that writes type 0
\* headers: the basic header, the eleven bytes of the message header, and the
\* four bytes of the extension when the timestamp field is 0xffffff. n counts
\* the bytes read; ReadFull fails when the bytes run out. The timestamp, a
\* uint32, is kept as its four bytes, the most significant first.
RECURSIVE Flatten(_)
Flatten(ws) == IF ws = <<>> THEN <<>> ELSE Head(ws) \o Flatten(Tail(ws))

readType0Header(b) ==
    LET short == [err |-> "read", msghdrtype |-> 0, csid |-> 0,
                  timestamp |-> Uint32ToBytes(0), msgdatalen |-> 0, msgtypeid |-> 0, msgsid |-> 0, n |-> 0]
        header == b[1]
        csid == header % 64
        k == IF csid = 0 THEN 1 ELSE IF csid = 1 THEN 2 ELSE 0
        id == IF csid = 0 THEN b[2] + 64
              ELSE IF csid = 1 THEN BytesToUint16(SubSeq(b, 2, 3)) + 64 ELSE csid
        h == SubSeq(b, 2 + k, 12 + k)
        field == BigEndian(SubSeq(h, 1, 3))
        ext == field = TimeExtended
    IN  IF Len(b) < 1 + k + 11 THEN short
        ELSE IF ext /\ Len(b) < 1 + k + 11 + 4 THEN short
        ELSE [err |-> "nil", msghdrtype |-> header \div 64, csid |-> id,
              timestamp |-> IF ext THEN SubSeq(b, 13 + k, 16 + k) ELSE Uint32ToBytes(field),
              msgdatalen |-> BigEndian(SubSeq(h, 4, 6)), msgtypeid |-> h[7],
              msgsid |-> BytesToUint32LE(SubSeq(h, 8, 11)),
              n |-> 1 + k + 11 + IF ext THEN 4 ELSE 0]

\* Nothing read back yet.
NoHeader == [err |-> "none"]

\* A conn after newConn and createStream: the write buffer holds zeros, of
\* which only the bytes writeAVTag asks tmpwbuf for are kept (a chunk header
\* with its extension and the 16 bytes of the longest tag header).
WriteBufLen == chunkHeaderLength + 4 + 16
InitWriter ==
    /\ wr = [writebuf |-> Zeros(WriteBufLen), writeMaxChunkSize |-> DefaultChunkSize,
             avmsgsid |-> 1, wire |-> <<>>, err |-> "nil", tags |-> 0, parsed |-> NoHeader,
             last |-> [tag |-> [Type |-> 0, FrameType |-> 0, AVCPacketType |-> 0, Data |-> <<>>],
                       timestamp |-> 0, max |-> DefaultChunkSize, before |-> 0]]
    /\ chk = NoChunks
    /\ rtmp = NoConn /\ mng = NoMng /\ hls = NoHook /\ tsc = NoCache /\ rp = NoReader /\ hres = NoHeadersCalls /\ ts = NoDemuxer
    /\ hsk = NoHandshake /\ lreg = NoLoad /\ slc = NoSlicer
    /\ tr = NoTransport
    /\ gopLen = 0
    /\ sys = "main"
    /\ que = NewQueue
    /\ cur = [c \in Cursors |-> newCursor]
    /\ cpc = [c \in Cursors |-> "idle"]
    /\ sig = [c \in Cursors |-> FALSE]
    /\ rets = [c \in Cursors |-> <<>>]
    /\ rlocks = 0
    /\ wblocked = FALSE
    /\ wleft = 0
    /\ rleft = 0

\* WritePacket hands one tag to writeAVTag.
DoWriteAVTag ==
    /\ wr.err = "nil"
    /\ wr.tags < MaxTags
    /\ \E tag \in Tags, t \in TagTimes, io \in [1..3 -> Errs] :
         wr' = [writeAVTag(wr, tag, t, io) EXCEPT !.tags = @ + 1, !.parsed = NoHeader]
    /\ UNCHANGED <<tr, BufferVars, rtmp, mng, hls, lreg, slc, hsk, ts, hres, chk, rp, tsc>>

\* The peer reads the chunk header of what the last writeAVTag put on the
\* wire.
DoReadBack ==
    /\ wr.err = "nil"
    /\ wr.tags > 0
    /\ wr.parsed = NoHeader
    /\ wr' = [wr EXCEPT !.parsed = readType0Header(Flatten(SubSeq(wr.wire, wr.last.before + 1,
                                                                  Len(wr.wire))))]
    /\ UNCHANGED <<tr, BufferVars, rtmp, mng, hls, lreg, slc, hsk, ts, hres, chk, rp, tsc>>

NextWriter == DoWriteAVTag \/ DoReadBack

SpecWriter == InitWriter /\ [][NextWriter]_vars

-----------------------------------------------------------------------------
(* Package rtmp: conn.ReadPacket after the probe *)

\* ReadPacket calls on one connection, and tags one call may take.
MaxCalls == 3
MaxPoll == 2
\* Sequence headers of each family, as their bytes.
SeqHeaders == [video |-> {"v1", "v2"}, audio |-> {"a1", "a2"}]

\* The tags pollAVTag can return: sequence headers, media tags, script data.
AVTags ==
    { [Type |-> f, seqhdr |-> TRUE, Data |-> d, IsKeyFrame |-> FALSE]
        : <<f, d>> \in UNION { { <<g, e>> : e \in SeqHeaders[g] } : g \in {"video", "audio"} } }
    \cup { [Type |-> "video", seqhdr |-> FALSE, Data |-> "nalu", IsKeyFrame |-> k]
            : k \in BOOLEAN }
    \cup { [Type |-> "audio", seqhdr |-> FALSE, Data |-> "raw", IsKeyFrame |-> FALSE],
           [Type |-> "script", seqhdr |-> FALSE, Data |-> "meta", IsKeyFrame |-> FALSE] }

\* Prober.TagToPacket: the packet of a tag; no is the place of the tag among
\* the tags received.
TagToPacket(tag, no) ==
    [DataType |-> tag.Type, SeqHdr |-> tag.seqhdr, Data |-> tag.Data,
     IsKeyFrame |-> tag.IsKeyFrame, HeaderChanged |-> FALSE, no |-> no]

\* Prober.HeaderChanged: a sequence header that differs byte-wise from the
\* cached one is parsed and swapped in.
ProberHeaderChanged(p, tag, parse) ==
    IF tag.Data = p.Streams[tag.Type] THEN [p |-> p, updated |-> FALSE, err |-> "nil"]
    ELSE IF parse = "err" THEN [p |-> p, updated |-> FALSE, err |-> "parse"]
    ELSE [p |-> [p EXCEPT !.Streams[tag.Type] = tag.Data], updated |-> TRUE, err |-> "nil"]

\* conn.headerChanged
headerChangedKeepsStreams(c, tag, parse) ==
    LET r == ProberHeaderChanged(c.prober, tag, parse)
    IN  [c |-> [c EXCEPT !.prober = r.p], updated |-> r.updated, err |-> r.err]
headerChanged(c, tag, parse) ==
    LET r == ProberHeaderChanged(c.prober, tag, parse)
        c1 == [c EXCEPT !.prober = r.p]
    IN  [c |-> IF r.updated THEN [c1 EXCEPT !.streams = r.p.Streams] ELSE c1,
         updated |-> r.updated, err |-> r.err]

\* The loop of ReadPacket over the tags pollAVTag returns, until one of them
\* makes it return; a loop that has used up the tags waits for the next.
RECURSIVE ReadLoop(_, _, _)
ReadLoop(c, tags, parse) ==
    IF tags = <<>> THEN [c EXCEPT !.waiting = TRUE]
    ELSE LET tag == Head(tags)
             no == Len(c.in) + 1
             c0 == [c EXCEPT !.in = Append(@, [tag |-> tag, cur |-> c.streams])]
             pkt == TagToPacket(tag, no)
         IN  IF tag.seqhdr
             THEN LET h == headerChanged(c0, tag, parse)
                  IN  IF h.err # "nil" THEN [h.c EXCEPT !.err = "seq header"]
                      ELSE IF h.updated
                      THEN [h.c EXCEPT !.out = Append(@, [pkt EXCEPT !.HeaderChanged = TRUE])]
                      ELSE ReadLoop(h.c, Tail(tags), parse)
             ELSE IF tag.Type = "script"
             THEN [c0 EXCEPT !.out = Append(@, [pkt EXCEPT !.HeaderChanged = TRUE])]
             ELSE [c0 EXCEPT !.out = Append(@, pkt)]

\* conn.ReadPacket: a packet the prober kept from the probe goes first.
connReadPacket(c, tags, parse) ==
    IF c.prober.pkts # <<>>
    THEN [c EXCEPT !.out = Append(@, Head(c.prober.pkts)), !.prober.pkts = Tail(@)]
    ELSE ReadLoop(c, tags, parse)

\* A conn whose probe has built the codec data of both streams; the prober
\* may still hold a packet of a tag that arrived during the probe.
InitReader ==
    /\ rp \in { [streams |-> st, prober |-> [Streams |-> st, pkts |-> q], in |-> <<>>,
                 out |-> <<>>, err |-> "nil", waiting |-> FALSE, calls |-> 0]
                : st \in [{"video", "audio"} -> {"v1", "v2", "a1", "a2"}],
                  q \in {<<>>, <<TagToPacket([Type |-> "video", seqhdr |-> FALSE,
                                              Data |-> "nalu", IsKeyFrame |-> TRUE], 0)>>} }
    /\ rp.streams["video"] \in SeqHeaders["video"]
    /\ rp.streams["audio"] \in SeqHeaders["audio"]
    /\ wr = NoWriter /\ chk = NoChunks
    /\ rtmp = NoConn /\ mng = NoMng /\ hls = NoHook /\ tsc = NoCache /\ hres = NoHeadersCalls /\ ts = NoDemuxer
    /\ hsk = NoHandshake /\ lreg = NoLoad /\ slc = NoSlicer
    /\ tr = NoTransport
    /\ gopLen = 0
    /\ sys = "main"
    /\ que = NewQueue
    /\ cur = [c \in Cursors |-> newCursor]
    /\ cpc = [c \in Cursors |-> "idle"]
    /\ sig = [c \in Cursors |-> FALSE]
    /\ rets = [c \in Cursors |-> <<>>]
    /\ rlocks = 0
    /\ wblocked = FALSE
    /\ wleft = 0
    /\ rleft = 0

\* One call of ReadPacket, on the tags the peer sends until it returns.
DoRtmpReadPacket ==
    /\ rp.err = "nil"
    /\ rp.calls < MaxCalls
    /\ \E tags \in UNION { [1..n -> AVTags] : n \in 0..MaxPoll }, parse \in Errs :
         LET r == connReadPacket(rp, tags, parse)
         IN  /\ ~r.waiting
             /\ Len(r.in) = Len(rp.in) + Len(tags)
             /\ rp' = [r EXCEPT !.calls = @ + 1]
    /\ UNCHANGED <<tr, BufferVars, rtmp, mng, hls, lreg, slc, hsk, ts, hres, chk, wr, tsc>>

NextReader == DoRtmpReadPacket

SpecReader == InitReader /\ [][NextReader]_vars

----------------------------------------------------------------------------
(* Package hls: the TS cache of a stream *)

TSCacheNumMin == 3

MaxItems == 5
MaxResets == 2

\* Durations of TS files in milliseconds, and the windows of a cache: 0 makes
\* a recording cache.
Durations == {1000, 3000}
HlsWindows == {0, 3000, 6000}

NewTSItem(name, duration, seqNum) ==
    [Name |-> name, SeqNum |-> seqNum, Duration |-> duration]

\* ll is the list of keys from Front to Back, lm the map. n counts the keys
\* handed to SetItem, mark is n at the last Reset.
NewTSCache(hlsWindow) ==
    [hlsWindow |-> hlsWindow, ll |-> <<>>, lm |-> <<>>, m3u8body |-> <<>>,
     firstTsSeq |-> 0, tsDurationMax |-> 0, panic |-> FALSE,
     n |-> 0, resets |-> 0, mark |-> 0]

IsRecord(c) == c.hlsWindow = 0

M3U8Line(kind, a, b) == [kind |-> kind, a |-> a, b |-> b]

\* genRecordM3U8PlayList: one more entry at the end of the playlist.
genRecordM3U8PlayList(c, key, item) ==
    [c EXCEPT
       !.tsDurationMax = IF @ < item.Duration THEN item.Duration ELSE @,
       !.firstTsSeq    = IF @ = 0 THEN item.SeqNum ELSE @,
       !.m3u8body      = Append(@, M3U8Line("inf", item.Duration, item.Name))]

\* genM3U8PlayList: the playlist of the keys after the first of the list
\* that the map knows.
genM3U8PlayList(c) ==
    IF c.ll = <<>> THEN [c EXCEPT !.m3u8body = <<>>]
    ELSE LET keys == SelectSeq(Tail(c.ll), LAMBDA k : k \in DOMAIN c.lm)
             maxDuration == Max({0} \cup {c.lm[keys[i]].Duration : i \in 1..Len(keys)})
             seq == IF keys = <<>> THEN 0 ELSE c.lm[keys[1]].SeqNum
         IN  [c EXCEPT !.m3u8body =
                 <<M3U8Line("head", (maxDuration \div 1000) + 1, seq)>> \o
                 [i \in 1..Len(keys) |->
                     M3U8Line("inf", c.lm[keys[i]].Duration, c.lm[keys[i]].Name)]]

RECURSIVE SumDuration(_, _)
SumDuration(lm, S) ==
    IF S = {} THEN 0
    ELSE LET k == CHOOSE x \in S : TRUE
         IN  lm[k].Duration + SumDuration(lm, S \ {k})

\* The eviction loop of SetItem. The map gives the zero item for a key it
\* does not hold; Front of an empty list is nil and its use panics.
RECURSIVE EvictTS(_, _)
EvictTS(c, totalDuration) ==
    IF totalDuration <= c.hlsWindow \/ Cardinality(DOMAIN c.lm) <= TSCacheNumMin
    THEN c
    ELSE IF c.ll = <<>> THEN [c EXCEPT !.panic = TRUE]
    ELSE LET k == Head(c.ll)
             d == IF k \in DOMAIN c.lm THEN c.lm[k].Duration ELSE 0
         IN  EvictTS([c EXCEPT !.ll = Tail(@),
                               !.lm = [x \in DOMAIN @ \ {k} |-> @[x]]],
                     totalDuration - d)

SetItem(c, key, item) ==
    IF IsRecord(c) THEN genRecordM3U8PlayList(c, key, item)
    ELSE LET c1 == [c EXCEPT
                      !.lm = [x \in DOMAIN @ \cup {key} |-> IF x = key THEN item ELSE @[x]],
                      !.ll = Append(@, key)]
             c2 == EvictTS(c1, SumDuration(c1.lm, DOMAIN c1.lm))
         IN  IF c2.panic THEN c2 ELSE genM3U8PlayList(c2)

\* Reset. Its loop removes the element at the front and then asks the removed
\* element for its successor: list.Remove has cleared the element's links,
\* so Next is nil and the loop ends with the rest of the list in place.
Reset(c) ==
    [c EXCEPT !.ll = IF @ = <<>> THEN <<>> ELSE Tail(@),
              !.lm = <<>>,
              !.m3u8body = <<>>,
              !.firstTsSeq = 0,
              !.tsDurationMax = 0]

InitCache ==
    /\ tsc \in {NewTSCache(w) : w \in HlsWindows}
    /\ rp = NoReader /\ wr = NoWriter /\ chk = NoChunks
    /\ rtmp = NoConn /\ mng = NoMng /\ hls = NoHook /\ hres = NoHeadersCalls /\ ts = NoDemuxer
    /\ hsk = NoHandshake /\ lreg = NoLoad /\ slc = NoSlicer
    /\ tr = NoTransport
    /\ gopLen = 0
    /\ sys = "main"
    /\ que = NewQueue
    /\ cur = [c \in Cursors |-> newCursor]
    /\ cpc = [c \in Cursors |-> "idle"]
    /\ sig = [c \in Cursors |-> FALSE]
    /\ rets = [c \in Cursors |-> <<>>]
    /\ rlocks = 0
    /\ wblocked = FALSE
    /\ wleft = 0
    /\ rleft = 0

\* The muxer hands the next TS file to the cache.
DoSetItem ==
    /\ ~tsc.panic
    /\ tsc.n < MaxItems
    /\ \E d \in Durations :
         LET key == tsc.n + 1
         IN  tsc' = [SetItem(tsc, key, NewTSItem(key, d, key)) EXCEPT !.n = key]
    /\ UNCHANGED <<tr, BufferVars, rtmp, mng, hls, lreg, slc, hsk, ts, hres, chk, wr, rp>>

DoReset ==
    /\ ~tsc.panic
    /\ tsc.resets < MaxResets
    /\ tsc' = [Reset(tsc) EXCEPT !.resets = @ + 1, !.mark = tsc.n]
    /\ UNCHANGED <<tr, BufferVars, rtmp, mng, hls, lreg, slc, hsk, ts, hres, chk, wr, rp>>

NextCache == DoSetItem \/ DoReset

SpecCache == InitCache /\ [][NextCache]_vars

----------------------------------------------------------------------------
(* Transport: the pumps of package av and package slice *)

MaxPkts == 3

\* What the source's ReadPacket can return: a packet that may carry
\* header_changed, may be a header-only packet (sequence header, script
\* data; a header slice) and may carry the drop flag.
SourcePkts(variant) ==
    {[HeaderChanged |-> h, IsHeader |-> s, Drop |-> d] :
        h \in BOOLEAN, s \in BOOLEAN, d \in IF variant = "av" THEN BOOLEAN ELSE {FALSE}}

\* src.Streams() / src.Headers(): the source's current headers, by version.
Streams(t) == t.ver

\* The test that sends CopyPackets into CopyHeaders.
NeedsNoHeaders(pkt) == FALSE
NeedsHeaders(pkt) == pkt.HeaderChanged

\* contextDone: the context of the pump has been cancelled.
contextNeverDone(t) == FALSE
contextDone(t) == t.canceled

Finish(t, ret) == [t EXCEPT !.pc = "done", !.ret = ret]

\* After the header step of an iteration: a header-only packet ends the
\* iteration, a dropped packet too (av), the others go on to the sink.
AfterHeadersKeepDropped(t) ==
    IF NeedsHeaders(t.pkt) /\ t.pkt.IsHeader THEN [t EXCEPT !.pc = "loop"]
    ELSE [t EXCEPT !.pc = "write"]
AfterHeaders(t) ==
    IF NeedsHeaders(t.pkt) /\ t.pkt.IsHeader THEN [t EXCEPT !.pc = "loop"]
    ELSE IF t.variant = "av" /\ t.pkt.Drop THEN [t EXCEPT !.pc = "loop"]
    ELSE [t EXCEPT !.pc = "write"]

InitT ==
    /\ \E v \in {"av", "slice"} :
          tr = [NoTransport EXCEPT !.variant = v, !.pc = "loop", !.top = "CopyPackets"]
    /\ NetIdle
    /\ gopLen = 0
    /\ sys = "main"
    /\ que = NewQueue
    /\ cur = [c \in Cursors |-> newCursor]
    /\ cpc = [c \in Cursors |-> "idle"]
    /\ sig = [c \in Cursors |-> FALSE]
    /\ rets = [c \in Cursors |-> <<>>]
    /\ rlocks = 0
    /\ wblocked = FALSE
    /\ wleft = 0
    /\ rleft = 0

QueueVars == <<BufferVars, NetVars>>

\* The context of the pump is cancelled by its owner.
CancelContext ==
    /\ IF tr.top = "CopyPackets" THEN tr.pc # "done" ELSE tr.avret = "none"
    /\ ~tr.canceled
    /\ tr' = [tr EXCEPT !.canceled = TRUE]
    /\ UNCHANGED QueueVars

\* Top of the loop of CopyPackets: context check, src.ReadPacket, and for
\* the av pump the AfterReadPacket hook.  A source that flags a packet has
\* its new headers in place when the packet is returned.
CopyPacketsRead ==
    /\ tr.pc = "loop"
    /\ \/ /\ contextDone(tr)
          /\ tr' = Finish(tr, "canceled")
       \/ /\ ~contextDone(tr)
          /\ tr' = Finish([tr EXCEPT !.reads = Append(@, [kind |-> "EOF", pkt |-> tr.pkt, late |-> tr.canceled])], "EOF")
       \/ /\ ~contextDone(tr)
          /\ tr' = Finish([tr EXCEPT !.reads = Append(@, [kind |-> "err", pkt |-> tr.pkt, late |-> tr.canceled])], "err")
       \/ /\ ~contextDone(tr) /\ tr.n < MaxPkts
          /\ \E p \in SourcePkts(tr.variant), hook \in Errs :
               LET ver == IF p.HeaderChanged THEN tr.ver + 1 ELSE tr.ver
                   pkt == [n |-> tr.n + 1, HeaderChanged |-> p.HeaderChanged,
                           IsHeader |-> p.IsHeader, Drop |-> p.Drop, ver |-> ver]
                   t1  == [tr EXCEPT !.n = @ + 1, !.ver = ver, !.pkt = pkt,
                                     !.reads = Append(@, [kind |-> "pkt", pkt |-> pkt,
                                                          late |-> tr.canceled]),
                                     !.flagged = IF p.HeaderChanged THEN @ \cup {pkt.n} ELSE @]
               IN  tr' = IF tr.variant = "av" /\ hook = "err" THEN Finish(t1, "err")
                         ELSE IF NeedsHeaders(pkt) THEN [t1 EXCEPT !.pc = "headers"]
                         ELSE AfterHeaders(t1)
    /\ UNCHANGED QueueVars

\* CopyHeaders called from the loop: context check, src.Streams, the
\* AfterReadHeaders hook, dst.WriteHeader, the AfterWriteHeaders hook.
CopyHeaders ==
    /\ tr.pc = "headers"
    /\ \/ /\ contextDone(tr)
          /\ tr' = Finish(tr, "canceled")
       \/ /\ ~contextDone(tr)
          /\ \E read \in Errs, write \in Errs, after \in Errs :
               LET ev == [type |-> "header", n |-> tr.pkt.n, hdr |-> Streams(tr),
                          HeaderChanged |-> FALSE]
                   t1 == [tr EXCEPT !.log = Append(@, ev)]
               IN  tr' = IF read = "err" \/ write = "err" THEN Finish(tr, "err")
                         ELSE IF after = "err" THEN Finish(t1, "err")
                         ELSE AfterHeaders(t1)
    /\ UNCHANGED QueueVars

\* The rest of an iteration: for the slice pump the AfterReadSlicePacket
\* hook, then dst.WritePacket and the hook after it.
CopyPacketsWrite ==
    /\ tr.pc = "write"
    /\ \E before \in Errs, write \in Errs, after \in Errs :
         LET ev == [type |-> "packet", n |-> tr.pkt.n, hdr |-> tr.pkt.ver,
                    HeaderChanged |-> tr.pkt.HeaderChanged]
             t0 == [tr EXCEPT !.passed = Append(@, tr.pkt.n)]
             t1 == [t0 EXCEPT !.log = Append(@, ev)]
         IN  tr' = IF tr.variant = "slice" /\ before = "err" THEN Finish(tr, "err")
                   ELSE IF write = "err" THEN Finish(t0, "err")
                   ELSE IF after = "err" THEN Finish(t1, "err")
                   ELSE [t1 EXCEPT !.pc = "loop"]
    /\ UNCHANGED QueueVars

NextT ==
    \/ CancelContext
    \/ CopyPacketsRead
    \/ CopyHeaders
    \/ CopyPacketsWrite

SpecT == InitT /\ [][NextT]_vars

----------------------------------------------------------------------------
(* The RTMP conn: its stage and the operations that advance it *)

Failed(c) == [c EXCEPT !.err = "err"]

\* HandshakeServer and HandshakeClient: the exchange, then stage++.
Handshake(c, io) == IF io = "err" THEN Failed(c) ELSE [c EXCEPT !.stage = @ + 1]

\* The command loop of ReadConnect after the connect command was answered:
\* cmds are the commands the peer sends before it closes, s.hook is what
\* the hook answers and s.write whether the reply can be written.
RECURSIVE ReadConnectLoop(_, _, _)
ReadConnectLoop(c, cmds, s) ==
    IF cmds = <<>> THEN Failed(c)
    ELSE IF Head(cmds) = "createStream"
    THEN ReadConnectLoop([c EXCEPT !.avmsgsid = 1,
                                   !.sent = Append(@, [name |-> "_result", msgsid |-> 0])],
                         Tail(cmds), s)
    ELSE IF Head(cmds) = "publish"
    THEN LET cberr == c.HasHook /\ s.hook = "err"
             c1 == [c EXCEPT !.hookCalls = IF c.HasHook THEN @ + 1 ELSE @]
             c2 == [c1 EXCEPT !.sent = Append(@,
                        [name |-> IF cberr THEN "onStatus StreamDuplicated"
                                  ELSE "onStatus Publish.Start",
                         msgsid |-> c.avmsgsid])]
         IN  IF s.write = "err" THEN Failed(c1)
             ELSE IF cberr THEN Failed(c2)
             ELSE [c2 EXCEPT !.publishing = TRUE, !.reading = TRUE, !.stage = @ + 1]
    ELSE IF Head(cmds) = "play"
    THEN LET c2 == [c EXCEPT !.sent = Append(@, [name |-> "onStatus Play.Start",
                                                 msgsid |-> c.avmsgsid])]
         IN  IF s.write = "err" THEN Failed(c)
             ELSE [c2 EXCEPT !.playing = TRUE, !.writing = TRUE, !.stage = @ + 1]
    ELSE ReadConnectLoop(c, Tail(cmds), s)

ReadConnect(c, s) ==
    IF ~s.connect THEN Failed(c)
    ELSE ReadConnectLoop([c EXCEPT !.sent = Append(@, [name |-> "_result", msgsid |-> 0])],
                         s.cmds, s)

connectPublish(c, io) ==
    IF io = "err" THEN Failed(c)
    ELSE [c EXCEPT !.writing = TRUE, !.publishing = TRUE, !.stage = @ + 1]

connectPlay(c, io) ==
    IF io = "err" THEN Failed(c)
    ELSE [c EXCEPT !.reading = TRUE, !.playing = TRUE, !.stage = @ + 1]

probe(c, io) == IF io = "err" THEN Failed(c) ELSE [c EXCEPT !.stage = @ + 1]

\* prepare(stage, flags): runs the steps that are missing up to stage and
\* stops at the first that fails; o holds what each step meets.
RECURSIVE prepare(_, _, _, _)
prepare(c, stage, flags, o) ==
    IF ~(c.stage < stage) THEN c
    ELSE LET c1 == CASE c.stage = 0 -> Handshake(c, o.hs)
                     [] c.stage = stageHandshakeDone ->
                            IF c.IsServer THEN ReadConnect(c, o.rc)
                            ELSE IF flags = prepareReading THEN connectPlay(c, o.cp)
                            ELSE connectPublish(c, o.cp)
                     [] OTHER ->
                            IF flags = prepareReading THEN probe(c, o.probe)
                            ELSE Failed(c)
         IN  IF c1.err # "nil" THEN c1 ELSE prepare(c1, stage, flags, o)

\* WriteHeader(streams): prepare, nothing more for an empty list, else the
\* metadata and the sequence headers, then stage++.
WriteHeaderConn(c, streams, io, o) ==
    LET c1 == prepare(c, stageCommandDone, prepareWriting, o)
    IN  IF c1.err # "nil" THEN c1
        ELSE IF streams = <<>> THEN c1
        ELSE IF io = "err" THEN Failed(c1)
        ELSE [c1 EXCEPT !.stage = @ + 1]

\* What the peer does during ReadConnect.
Scripts ==
    {[connect |-> k, cmds |-> cs, hook |-> h, write |-> w] :
        k \in BOOLEAN, h \in Errs, w \in Errs,
        cs \in {<<>>, <<"createStream", "publish">>, <<"createStream", "play">>,
                <<"publish">>, <<"play">>, <<"getStreamLength", "createStream", "play">>}}

Outcomes == [hs : Errs, rc : Scripts, cp : Errs, probe : Errs]

InitConn ==
    /\ \E srv \in BOOLEAN, h \in BOOLEAN :
          rtmp = [NoConn EXCEPT !.IsServer = srv, !.HasHook = h]
    /\ tr = NoTransport
    /\ tsc = NoCache
    /\ rp = NoReader
    /\ wr = NoWriter
    /\ chk = NoChunks
    /\ hres = NoHeadersCalls
    /\ ts = NoDemuxer
    /\ hsk = NoHandshake
    /\ slc = NoSlicer
    /\ lreg = NoLoad
    /\ mng = NoMng
    /\ hls = NoHook
    /\ gopLen = 0
    /\ sys = "main"
    /\ que = NewQueue
    /\ cur = [c \in Cursors |-> newCursor]
    /\ cpc = [c \in Cursors |-> "idle"]
    /\ sig = [c \in Cursors |-> FALSE]
    /\ rets = [c \in Cursors |-> <<>>]
    /\ rlocks = 0
    /\ wblocked = FALSE
    /\ wleft = 0
    /\ rleft = 0

\* One call of an operation of the conn: c is the conn it leaves.
Call(op, c) == rtmp' = [c EXCEPT !.op = op, !.before = rtmp.stage]

Fresh == [rtmp EXCEPT !.err = "nil", !.hookCalls = 0, !.sent = <<>>]

ConnHandshake ==
    /\ rtmp.stage = 0
    /\ \E io \in Errs : Call("Handshake", Handshake(Fresh, io))
    /\ UNCHANGED <<tr, BufferVars, mng, hls, lreg, slc, hsk, ts, hres, chk, wr, rp, tsc>>

ConnReadConnect ==
    /\ rtmp.stage = stageHandshakeDone /\ rtmp.IsServer
    /\ \E s \in Scripts : Call("ReadConnect", ReadConnect(Fresh, s))
    /\ UNCHANGED <<tr, BufferVars, mng, hls, lreg, slc, hsk, ts, hres, chk, wr, rp, tsc>>

ConnConnect ==
    /\ rtmp.stage = stageHandshakeDone /\ ~rtmp.IsServer
    /\ \E io \in Errs :
          \/ Call("ConnectPublish", connectPublish(Fresh, io))
          \/ Call("ConnectPlay", connectPlay(Fresh, io))
    /\ UNCHANGED <<tr, BufferVars, mng, hls, lreg, slc, hsk, ts, hres, chk, wr, rp, tsc>>

\* Streams, Headers and ReadPacket start with prepare(stageCodecDataDone,
\* prepareReading); io is the outcome of what ReadPacket does after it.
ConnReadPacket ==
    /\ \E o \in Outcomes, io \in Errs :
          LET c1 == prepare(Fresh, stageCodecDataDone, prepareReading, o)
          IN  \/ Call("Streams", c1)
              \/ Call("ReadPacket", IF c1.err = "nil" /\ io = "err" THEN Failed(c1) ELSE c1)
    /\ UNCHANGED <<tr, BufferVars, mng, hls, lreg, slc, hsk, ts, hres, chk, wr, rp, tsc>>

ConnWritePacket ==
    /\ \E o \in Outcomes, io \in Errs :
          LET c1 == prepare(Fresh, stageCodecDataDone, prepareWriting, o)
          IN  Call("WritePacket", IF c1.err = "nil" /\ io = "err" THEN Failed(c1) ELSE c1)
    /\ UNCHANGED <<tr, BufferVars, mng, hls, lreg, slc, hsk, ts, hres, chk, wr, rp, tsc>>

ConnWriteHeader ==
    /\ rtmp.stage < MaxStage
    /\ \E o \in Outcomes, io \in Errs, streams \in {<<>>, <<"H264", "AAC">>} :
          Call("WriteHeader", WriteHeaderConn(Fresh, streams, io, o))
    /\ UNCHANGED <<tr, BufferVars, mng, hls, lreg, slc, hsk, ts, hres, chk, wr, rp, tsc>>

NextConn ==
    \/ ConnHandshake
    \/ ConnReadConnect
    \/ ConnConnect
    \/ ConnReadPacket
    \/ ConnWritePacket
    \/ ConnWriteHeader

SpecConn == InitConn /\ [][NextConn]_vars

----------------------------------------------------------------------------
(* The stream managers of package pusher and package downstream *)

StreamNames == {"a", "b"}

InitMng ==
    /\ \E k \in {"pusher", "downstream"} : mng = [NoMng EXCEPT !.pkg = k]
    /\ rtmp = NoConn
    /\ tr = NoTransport
    /\ tsc = NoCache
    /\ rp = NoReader
    /\ wr = NoWriter
    /\ chk = NoChunks
    /\ hres = NoHeadersCalls
    /\ ts = NoDemuxer
    /\ hsk = NoHandshake
    /\ slc = NoSlicer
    /\ lreg = NoLoad
    /\ hls = NoHook
    /\ gopLen = 0
    /\ sys = "main"
    /\ que = NewQueue
    /\ cur = [c \in Cursors |-> newCursor]
    /\ cpc = [c \in Cursors |-> "idle"]
    /\ sig = [c \in Cursors |-> FALSE]
    /\ rets = [c \in Cursors |-> <<>>]
    /\ rlocks = 0
    /\ wblocked = FALSE
    /\ wleft = 0
    /\ rleft = 0

\* Launch(name, ...), up to its first statement: streams.Load(name), and
\* ErrDuplicateStream when the name is there.
LaunchLoad(l) ==
    /\ mng.pc[l] = "idle"
    /\ \E n \in StreamNames :
          LET found == n \in mng.streams
          IN  mng' = [mng EXCEPT !.name[l] = n, !.registered[l] = found, !.ran[l] = FALSE,
                                 !.pc[l] = IF found THEN "done" ELSE "store",
                                 !.ret[l] = IF found THEN CodeDuplicateStream ELSE 0]
    /\ UNCHANGED <<tr, BufferVars, rtmp, hls, lreg, slc, hsk, ts, hres, chk, wr, rp, tsc>>

\* streams.Store(name, info), then Publish or Pull, which blocks.
LaunchStore(l) ==
    /\ mng.pc[l] = "store"
    /\ mng' = [mng EXCEPT !.streams = @ \cup {mng.name[l]}, !.pc[l] = "run", !.ran[l] = TRUE]
    /\ UNCHANGED <<tr, BufferVars, rtmp, hls, lreg, slc, hsk, ts, hres, chk, wr, rp, tsc>>

\* Publish or Pull returns; then Load and Delete of the name, and the
\* error of Publish or Pull is the result.
LaunchDelete(l) ==
    /\ mng.pc[l] = "run"
    /\ \E err \in {0, 1} :
          mng' = [mng EXCEPT !.streams = @ \ {mng.name[l]}, !.pc[l] = "done", !.ret[l] = err]
    /\ UNCHANGED <<tr, BufferVars, rtmp, hls, lreg, slc, hsk, ts, hres, chk, wr, rp, tsc>>

\* The goroutine is free for another Launch.
LaunchAgain(l) ==
    /\ mng.pc[l] = "done"
    /\ mng' = [mng EXCEPT !.pc[l] = "idle"]
    /\ UNCHANGED <<tr, BufferVars, rtmp, hls, lreg, slc, hsk, ts, hres, chk, wr, rp, tsc>>

NextMng ==
    \/ \E l \in Launchers : LaunchLoad(l)
    \/ \E l \in Launchers : LaunchStore(l)
    \/ \E l \in Launchers : LaunchDelete(l)
    \/ \E l \in Launchers : LaunchAgain(l)

SpecMng == InitMng /\ [][NextMng]_vars

----------------------------------------------------------------------------
(* The hook of package hls: OnHookEvent and the workers *)

HookEvents == {1, 2}

\* select { case queue <- e: default: } on the buffered channel: the send
\* when there is room, else the default branch; a send on a closed channel
\* panics.
SendOrWait(h) ==
    IF h.closed THEN [h EXCEPT !.pc = "idle", !.out = "panic"]
    ELSE IF h.queue.n < HookEventQueueLen
    THEN [h EXCEPT !.pc = "idle", !.out = "sent",
                   !.queue = [n |-> h.queue.n + 1, last |-> h.e]]
    ELSE [h EXCEPT !.out = "blocked"]
SendOrDiscard(h) ==
    IF h.closed THEN [h EXCEPT !.pc = "idle", !.out = "panic"]
    ELSE IF h.queue.n < HookEventQueueLen
    THEN [h EXCEPT !.pc = "idle", !.out = "sent",
                   !.queue = [n |-> h.queue.n + 1, last |-> h.e]]
    ELSE [h EXCEPT !.pc = "idle", !.out = "discarded"]

InitHook ==
    /\ hls = NoHook
    /\ rtmp = NoConn
    /\ mng = NoMng
    /\ tr = NoTransport
    /\ tsc = NoCache
    /\ rp = NoReader
    /\ wr = NoWriter
    /\ chk = NoChunks
    /\ hres = NoHeadersCalls
    /\ ts = NoDemuxer
    /\ hsk = NoHandshake
    /\ slc = NoSlicer
    /\ lreg = NoLoad
    /\ gopLen = 0
    /\ sys = "main"
    /\ que = NewQueue
    /\ cur = [c \in Cursors |-> newCursor]
    /\ cpc = [c \in Cursors |-> "idle"]
    /\ sig = [c \in Cursors |-> FALSE]
    /\ rets = [c \in Cursors |-> <<>>]
    /\ rlocks = 0
    /\ wblocked = FALSE
    /\ wleft = 0
    /\ rleft = 0

\* OnHookEvent(e), its first statement: return when the context is done.
OnHookEvent ==
    /\ hls.pc = "idle"
    /\ \E e \in HookEvents :
          hls' = IF hls.done
                 THEN [hls EXCEPT !.e = e, !.out = "ctxdone"]
                 ELSE [hls EXCEPT !.e = e, !.out = "none", !.pc = "select"]
    /\ UNCHANGED <<tr, BufferVars, rtmp, mng, lreg, slc, hsk, ts, hres, chk, wr, rp, tsc>>

\* OnHookEvent, the select.
OnHookEventSelect ==
    /\ hls.pc = "select" /\ hls.out = "none"
    /\ hls' = SendOrDiscard(hls)
    /\ UNCHANGED <<tr, BufferVars, rtmp, mng, lreg, slc, hsk, ts, hres, chk, wr, rp, tsc>>

\* run: a worker receives an event and handles it.
WorkerReceive ==
    /\ ~hls.done /\ hls.queue.n > 0
    /\ hls' = [hls EXCEPT !.queue.n = @ - 1]
    /\ UNCHANGED <<tr, BufferVars, rtmp, mng, lreg, slc, hsk, ts, hres, chk, wr, rp, tsc>>

\* The root context is cancelled.
CancelRoot ==
    /\ ~hls.done
    /\ hls' = [hls EXCEPT !.done = TRUE]
    /\ UNCHANGED <<tr, BufferVars, rtmp, mng, lreg, slc, hsk, ts, hres, chk, wr, rp, tsc>>

\* run: a worker sees ctx.Done and returns; the first to do so closes the
\* channel.
WorkerExit ==
    /\ hls.done /\ ~hls.closed
    /\ hls' = [hls EXCEPT !.closed = TRUE]
    /\ UNCHANGED <<tr, BufferVars, rtmp, mng, lreg, slc, hsk, ts, hres, chk, wr, rp, tsc>>

NextHook ==
    \/ OnHookEvent
    \/ OnHookEventSelect
    \/ WorkerReceive
    \/ CancelRoot
    \/ WorkerExit

SpecHook == InitHook /\ [][NextHook]_vars

----------------------------------------------------------------------------
(* CopyAV and CopySlice: headers, packets, trailer *)

InitAV ==
    /\ \E v \in {"av", "slice"} :
          tr = [NoTransport EXCEPT !.variant = v, !.pc = "start", !.top = "CopyAV"]
    /\ NetIdle
    /\ gopLen = 0
    /\ sys = "main"
    /\ que = NewQueue
    /\ cur = [c \in Cursors |-> newCursor]
    /\ cpc = [c \in Cursors |-> "idle"]
    /\ sig = [c \in Cursors |-> FALSE]
    /\ rets = [c \in Cursors |-> <<>>]
    /\ rlocks = 0
    /\ wblocked = FALSE
    /\ wleft = 0
    /\ rleft = 0

\* The first statement of CopyAV: CopyHeaders, whose error is returned.
CopyAVHeaders ==
    /\ tr.top = "CopyAV" /\ tr.pc = "start"
    /\ \/ /\ contextDone(tr)
          /\ tr' = [tr EXCEPT !.pc = "done", !.avret = "canceled"]
       \/ /\ ~contextDone(tr)
          /\ \E read \in Errs, write \in Errs, after \in Errs :
               LET ev == [type |-> "header", n |-> 0, hdr |-> Streams(tr),
                          HeaderChanged |-> FALSE]
                   t1 == [tr EXCEPT !.log = Append(@, ev)]
               IN  tr' = IF read = "err" \/ write = "err"
                         THEN [tr EXCEPT !.pc = "done", !.avret = "err"]
                         ELSE IF after = "err" THEN [t1 EXCEPT !.pc = "done", !.avret = "err"]
                         ELSE [t1 EXCEPT !.pc = "loop"]
    /\ UNCHANGED QueueVars

\* The rest of CopyAV once CopyPackets has returned cerr: an error other
\* than io.EOF is returned; else the context check, dst.WriteTrailer, and
\* return cerr.
CopyAVTrailer ==
    /\ tr.top = "CopyAV" /\ tr.pc = "done" /\ tr.avret = "none" /\ tr.ret # "none"
    /\ \E trailer \in Errs :
         LET t1 == [tr EXCEPT !.trailers = @ + 1, !.lateTrailer = @ \/ tr.canceled]
         IN  tr' = IF tr.ret # "EOF" THEN [tr EXCEPT !.avret = tr.ret]
                   ELSE IF contextDone(tr) THEN [tr EXCEPT !.avret = "canceled"]
                   ELSE IF trailer = "err" THEN [t1 EXCEPT !.avret = "err"]
                   ELSE [t1 EXCEPT !.avret = tr.ret]
    /\ UNCHANGED QueueVars

NextAV ==
    \/ CancelContext
    \/ CopyAVHeaders
    \/ CopyPacketsRead
    \/ CopyHeaders
    \/ CopyPacketsWrite
    \/ CopyAVTrailer

SpecAV == InitAV /\ [][NextAV]_vars

\* C9: in CopyPackets of both pumps, a packet read with header_changed
\* reaches the sink's WritePacket only right after the sink's WriteHeader
\* made for it, called with the headers the source has at that packet; that
\* WriteHeader comes after the WritePacket of every earlier packet; and a
\* flagged packet whose iteration ran to its end had its WriteHeader.
C9_HeaderBeforePacket ==
    LET log == tr.log
        HeaderFor(n) == {k \in 1..Len(log) : log[k].type = "header" /\ log[k].n = n}
    IN  /\ \A k \in 1..Len(log) :
              (log[k].type = "packet" /\ log[k].HeaderChanged)
                  => /\ k > 1
                     /\ log[k - 1].type = "header"
                     /\ log[k - 1].n = log[k].n
                     /\ log[k - 1].hdr = log[k].hdr
        /\ \A k \in 1..Len(log) : \A j \in 1..Len(log) :
              (log[k].type = "header" /\ log[j].type = "packet")
                  => (j < k <=> log[j].n < log[k].n)
        /\ \A n \in tr.flagged :
              (n < tr.n \/ (n = tr.n /\ tr.pc \in {"loop", "write"})) => HeaderFor(n) # {}

C9_Witness ==
    \E k \in 2..Len(tr.log) :
        /\ tr.log[k].type = "packet" /\ tr.log[k].HeaderChanged
        /\ \E j \in 1..(k - 1) : tr.log[j].type = "packet"

----------------------------------------------------------------------------
(* Properties of the writer side *)

KeyFrames(buf) ==
    {i \in 1..Len(buf.pkts) : buf.pkts[i].DataType = "video" /\ buf.pkts[i].IsKeyFrame}

\* C3: with max_pkt_count = M >= 1 set before the first write, the buffer of
\* the main queue and of the slice queue holds at most M packets after every
\* WritePacket: tail - head <= M.
C3_PktLimitHolds ==
    /\ que.buf.Tail - que.buf.Head = Count(que.buf)
    /\ Count(que.buf) <= que.maxPktCount

C3_Witness ==
    /\ sys = "main" /\ que.maxPktCount = 3 /\ que.maxGOPCount = DefaultGopCount
    /\ que.buf.Head >= 2 /\ Count(que.buf) = 2

\* C4: with max_gop_count = G >= 1 set before the first write, the main
\* queue's buffer [head, tail) holds at most G video keyframes after every
\* WritePacket.
C4_GopLimitHolds ==
    sys = "main" => Cardinality(KeyFrames(que.buf)) <= que.maxGOPCount

C4_Witness ==
    /\ sys = "main" /\ que.maxGOPCount = 3 /\ que.maxPktCount = DefaultPktCount
    /\ que.buf.Head > 0 /\ Cardinality(KeyFrames(que.buf)) = 2

\* C5: with max_gop_count = G and the packet limit out of reach, once k > G
\* whole GOPs are written the queue holds exactly the last G of them (G = 2
\* and three GOPs of 60 frames: frames 60..179).
C5_HoldsLastGops ==
    (gopLen > 0 /\ que.buf.Tail % gopLen = 0 /\ que.buf.Tail > que.maxGOPCount * gopLen)
        => que.buf.Head = que.buf.Tail - que.maxGOPCount * gopLen

\* C6: an eviction by the GOP limit removes the whole oldest GOP, so the
\* packet at head is a video keyframe whenever WritePacket returns.
C6_HeadIsKeyFrame ==
    (gopLen > 0 /\ Count(que.buf) > 0)
        => (Get(que.buf, que.buf.Head).DataType = "video"
              /\ Get(que.buf, que.buf.Head).IsKeyFrame)

\* C8: once the queue is closed, WritePacket and WriteHeader leave the
\* buffer and the headers of the main queue and of the slice queue as they are.
C8_ClosedWritesAreNoOps ==
    [][que.closed => (que'.buf = que.buf /\ que'.headers = que.headers)]_vars

----------------------------------------------------------------------------
(* Properties of the cursors *)

Delivered(c) == {i \in 1..Len(rets[c]) : rets[c][i].err = "nil"}

\* C1: every packet ReadPacket returns was fetched at a position p with
\* head <= p < tail of the buffer at that moment: no evicted and no
\* unwritten position is ever returned.
C1_ReturnedInWindow ==
    \A c \in Cursors : \A i \in Delivered(c) :
        /\ rets[c][i].head <= rets[c][i].at
        /\ rets[c][i].at < rets[c][i].tail

C1_Witness ==
    \E c \in Cursors : \E i \in Delivered(c) : rets[c][i].head > 0

\* C11: a main-queue cursor with skip_frame_threshold = 0 that the head has
\* not overtaken delivers consecutive positions: the packet returned after
\* the one at position p is the one at p + 1, whatever the producer wrote
\* in between.
C11_ConsecutivePositions ==
    \A c \in Cursors : \A i, j \in Delivered(c) :
        (/\ sys = "main" /\ ~cur[c].EnableSlice /\ cur[c].SkipFrameThreshold = 0
         /\ i < j /\ (\A k \in Delivered(c) : ~(i < k /\ k < j))
         /\ rets[c][j].head <= rets[c][i].at + 1)
            => rets[c][j].at = rets[c][i].at + 1

C11_Witness ==
    \E c \in Cursors : \E i, j \in Delivered(c) :
        /\ sys = "main" /\ ~cur[c].EnableSlice /\ cur[c].SkipFrameThreshold = 0
        /\ i < j /\ rets[c][j].tail >= rets[c][i].tail + 2
        /\ rets[c][j].head > 0 /\ rets[c][j].head <= rets[c][i].at + 1

\* C2: the positions a CursorByDelayedFrame cursor returns are strictly
\* increasing, whatever its start offset and skip threshold: a
\* re-initialisation never moves it backwards and no packet is delivered twice.
C2_PositionsIncrease ==
    \A c \in Cursors : \A i, j \in Delivered(c) :
        (sys = "main" /\ ~cur[c].EnableSlice /\ i < j) => rets[c][i].at < rets[c][j].at

HeaderAt(c, i) == rets[c][i].pkt.HeaderBeginAt

\* C10: a cursor's cur_header_begin_at never decreases (it is the newest
\* header_begin_at among the packets returned so far); a returned packet has
\* header_changed = true exactly when its header_begin_at is above that of
\* every packet returned before it; so at most one packet is flagged for
\* each header.
C10_HeaderFlag ==
    \A c \in Cursors :
        LET D == Delivered(c)
        IN  /\ cur[c].curHeaderBeginAt =
                  IF D = {} THEN 0 - 1 ELSE Max({HeaderAt(c, i) : i \in D})
            /\ \A i \in D :
                  rets[c][i].pkt.HeaderChanged
                      <=> (\A j \in D : j < i => HeaderAt(c, i) > HeaderAt(c, j))
            /\ \A i, j \in D :
                  (i < j /\ rets[c][i].pkt.HeaderChanged /\ rets[c][j].pkt.HeaderChanged)
                      => HeaderAt(c, i) # HeaderAt(c, j)

\* C12: when the source ends (io.EOF) and the context was never cancelled,
\* CopyAV has called the sink's WriteTrailer exactly once and, the trailer
\* written, returns nil.
C12_EofReturnsSuccess ==
    (/\ tr.top = "CopyAV" /\ tr.ret = "EOF" /\ ~tr.canceled
     /\ tr.avret \notin {"none", "err"})
        => (tr.trailers = 1 /\ tr.avret = "nil")

Completed(t) ==
    {i \in DOMAIN t.reads :
        /\ t.reads[i].kind = "pkt"
        /\ i < t.n \/ (i = t.n /\ (t.pc = "loop" \/ t.ret = "EOF"))}

PassedSet(t) == {t.passed[k] : k \in DOMAIN t.passed}

C15_StageIsOneOfFour ==
    /\ rtmp.stage \in {0, stageHandshakeDone, stageCommandDone, stageCodecDataDone}
    /\ rtmp.stage >= rtmp.before
    /\ rtmp.err # "nil" => rtmp.stage = rtmp.before

\* C16: a server ReadConnect with a hook configured invokes it for the
\* publish or play request it completes; when the hook fails (the
\* StreamDuplicated onStatus is its reply) ReadConnect returns an error,
\* the stage is not advanced and none of publishing, playing, reading,
\* writing is set.
C16_HookGuardsPlayAndPublish ==
    (rtmp.op = "ReadConnect" /\ rtmp.HasHook) =>
        /\ rtmp.err = "nil" => rtmp.hookCalls = 1
        /\ (\E i \in DOMAIN rtmp.sent : rtmp.sent[i].name = "onStatus StreamDuplicated") =>
              /\ rtmp.err # "nil" /\ rtmp.stage = rtmp.before
              /\ ~rtmp.publishing /\ ~rtmp.playing /\ ~rtmp.reading /\ ~rtmp.writing

\* C17: of the Launch calls given the same stream name at most one is
\* inside Publish or Pull at a time, and a Launch issued while its name is
\* registered returns the duplicate-stream error, code 1001, without having
\* started Publish or Pull.
C17_OneLaunchPerName ==
    /\ \A a, b \in Launchers :
          (a # b /\ mng.pc[a] = "run" /\ mng.pc[b] = "run") => mng.name[a] # mng.name[b]
    /\ \A a \in Launchers :
          (mng.pc[a] # "idle" /\ mng.registered[a]) =>
              (mng.pc[a] = "done" /\ mng.ret[a] = CodeDuplicateStream /\ ~mng.ran[a])

\* C18: OnHookEvent never waits for room in the event queue; the queue
\* never holds more than 10000 events; an event that finds the queue full
\* is discarded and leaves the queue as it was.
C18_HookQueueBounded ==
    [][/\ hls'.queue.n <= HookEventQueueLen
       /\ (hls.pc = "select" /\ hls'.out # hls.out) =>
             /\ hls'.pc = "idle"
             /\ hls.queue.n = HookEventQueueLen =>
                   (hls'.out # "sent" /\ hls'.queue = hls.queue)]_vars

C18_Witness ==
    /\ hls.out = "discarded" /\ hls.pc = "idle"
    /\ hls.queue.n = HookEventQueueLen /\ hls.e # hls.queue.last

\* C19: every packet a slice cursor in substream mode (stream base > 0)
\* returns has a slice id whose remainder by the stream base is a substream
\* id the cursor subscribed to.
C19_SubstreamFilter ==
    \A c \in Cursors : \A i \in Delivered(c) :
        LET id == rets[c][i].pkt.SliceId
        IN  IF sys = "slice"
            THEN cur[c].SliceStreamBase > 0 =>
                     (id % cur[c].SliceStreamBase) \in cur[c].SliceSubstreamId
            ELSE (cur[c].EnableSlice /\ cur[c].SliceStreamBase > 0) =>
                     (id % cur[c].SliceStreamBase) = cur[c].SliceSubstreamId

\* The keyframes of the video stream that have at least n video frames
\* after them in the window.
KeyFramesDelayedBy(q, n) ==
    {p \in q.buf.Head..(q.buf.Tail - 1) :
        /\ Get(q.buf, p).Idx = q.videoidx /\ Get(q.buf, p).IsKeyFrame
        /\ Cardinality(VideoAt(q.buf, p + 1, q.buf.Tail - 1)) >= n}

\* The keyframes of the video stream that have at least n packets, of any
\* stream, after them in the window.
KeyFramesDelayedByPackets(q, n) ==
    {p \in q.buf.Head..(q.buf.Tail - 1) :
        /\ Get(q.buf, p).Idx = q.videoidx /\ Get(q.buf, p).IsKeyFrame
        /\ q.buf.Tail - 1 - p >= n}

Overtaken(c) ==
    /\ sys = "main" /\ ~cur[c].EnableSlice /\ cur[c].preInited
    /\ LT(cur[c].pos, que.buf.Head)

\* Cursor c calls ReadPacket in this step and the call runs under the read lock.
ReadRuns(c) == cpc[c] = "idle" /\ rleft' = rleft - 1 /\ cpc'[c] # "lockWait"

\* The call of cursor c returns a packet in this step.
ReturnsPkt(c) ==
    /\ Len(rets'[c]) = Len(rets[c]) + 1
    /\ rets'[c][Len(rets'[c])].err = "nil"

\* The positions of the video keyframes of the window.
KeyFramePositions(q) ==
    {p \in q.buf.Head..(q.buf.Tail - 1) :
        Get(q.buf, p).DataType = "video" /\ Get(q.buf, p).IsKeyFrame}

\* Where a re-initialised cursor resumes in a queue with a video stream: the
\* latest keyframe with at least n packets after it, else the oldest keyframe.
ResumeAt(q, n) ==
    IF KeyFramesDelayedByPackets(q, n) # {}
    THEN Max(KeyFramesDelayedByPackets(q, n))
    ELSE Min(KeyFramesDelayedByPackets(q, 0))

C22_LossNeverDecreases ==
    [][que'.lossPktCount >= que.lossPktCount]_vars

C24_EchoHandshakeCopiesC1 ==
    (hsk.S0S1S2 # <<>> /\ SubSeq(hsk.C0C1, 6, 9) = <<0, 0, 0, 0>>)
        => /\ SubSeq(hsk.S0S1S2, 2, HsBlock + 1) = SubSeq(hsk.C0C1, 2, HsBlock + 1)
           /\ SubSeq(hsk.S0S1S2, HsBlock + 2, 2 * HsBlock + 1) = SubSeq(hsk.C0C1, 2, HsBlock + 1)

\* The parameter sets of kind k the input has carried up to payload n.
FedNalus(n, k) ==
    {nalu \in Nalus : NalType(nalu) = k /\ \E i \in 1..n : \E j \in DOMAIN ts.fed[i] :
                                               ts.fed[i][j] = nalu}

\* HasNalu: payload i of the input carries a NAL unit of type k.
HasNalu(i, k) == \E j \in DOMAIN ts.fed[i] : NalType(ts.fed[i][j]) = k

HeadersReturns(c) == Len(hres'[c]) = Len(hres[c]) + 1

HasHeaderAt(q, at) == \E i \in DOMAIN q.headers : q.headers[i].BeginAt = at

RepairedHeaderWritten ==
    \E data \in HeaderInputs :
        /\ Len(ConvertHeader(data)) = 1
        /\ RepairHeader(que, ConvertHeader(data)) # ConvertHeader(data)
        /\ que' = WriteHeader(que, data)
        /\ wleft' = wleft - 1

\* C28: when WriteHeader receives only an audio header (or only a video
\* header) and carries the missing family forward from the previous header,
\* the queue's video stream index stays equal to the Idx carried by the video
\* packets of the stream.
C28_VideoIdxStableOnRepair ==
    [][(sys = "main" /\ que.videoidx # NoVideoIdx /\ RepairedHeaderWritten)
          => que'.videoidx = que.videoidx]_vars

\* C29: a server ReadConnect completes a publish or play request only after
\* a createStream command has been received and answered, so whenever it
\* returns success the message stream id of the onStatus reply and of the
\* A/V messages is 1.
C29_CreateStreamBeforePublishOrPlay ==
    (rtmp.op = "ReadConnect" /\ rtmp.err = "nil") =>
        /\ rtmp.avmsgsid = 1
        /\ Cardinality({i \in DOMAIN rtmp.sent : rtmp.sent[i].name = "_result"}) >= 2
        /\ \A i \in DOMAIN rtmp.sent :
              rtmp.sent[i].name \in {"onStatus Publish.Start", "onStatus Play.Start"}
                  => rtmp.sent[i].msgsid = 1

\* C30: in the RTMP chunk reader, per chunk stream id, a chunk with header
\* type 0, 1 or 2 that arrives while bytes of a message are still missing is
\* refused as a protocol error, and no other chunk is; otherwise the chunk adds
\* at most readMaxChunkSize bytes to the message of its own chunk stream and
\* leaves the other chunk streams alone, and handleMsg is called exactly once,
\* at the chunk that brings msgdataleft to 0, with msgdatalen bytes that are
\* the bytes of the wire in their order.
ChunkAccepted ==
    LET r == chk'.recv
        cs0 == chk.readcsmap[r.csid]
        cs1 == chk'.readcsmap[r.csid]
        had == IF cs0.msgdataleft # 0 THEN cs0.msgdatalen - cs0.msgdataleft ELSE 0
        m == chk'.msgs[Len(chk'.msgs)]
    IN  /\ r.size <= chk.readMaxChunkSize
        /\ cs1.msgdatalen - cs1.msgdataleft = had + r.size
        /\ \A id \in Csids \ {r.csid} : chk'.readcsmap[id] = chk.readcsmap[id]
        /\ Len(chk'.msgs) = Len(chk.msgs) + (IF cs1.msgdataleft = 0 THEN 1 ELSE 0)
        /\ SubSeq(chk'.msgs, 1, Len(chk.msgs)) = chk.msgs
        /\ cs1.msgdataleft = 0 =>
             /\ m.csid = r.csid
             /\ m.msgdatalen = cs1.msgdatalen
             /\ Len(m.msgdata) = m.msgdatalen
             /\ \A i \in 1..Len(m.msgdata) : m.msgdata[i] > 0
             /\ \A i \in 1..(Len(m.msgdata) - 1) : m.msgdata[i] < m.msgdata[i + 1]

C30_ChunksAccumulateDispatchOnce ==
    [][chk' # chk =>
         LET r == chk'.recv
             refused == r.msghdrtype \in {0, 1, 2} /\ chk.readcsmap[r.csid].msgdataleft # 0
         IN  /\ (chk'.err = "chunk invalid") <=> refused
             /\ refused => chk'.msgs = chk.msgs /\ chk'.readcsmap = chk.readcsmap
             /\ ~refused => ChunkAccepted]_vars

\* Two messages of four bytes on two chunk streams were both dispatched, the
\* first chunk of the later one read between the two chunks of the earlier.
C30_Witness ==
    /\ chk # NoChunks
    /\ \E i, j \in 1..Len(chk.msgs) :
         /\ i < j
         /\ chk.msgs[i].csid # chk.msgs[j].csid
         /\ Len(chk.msgs[i].msgdata) = 4
         /\ Len(chk.msgs[j].msgdata) = 4
         /\ chk.msgs[i].msgdata[3] < chk.msgs[j].msgdata[1]
         /\ chk.msgs[j].msgdata[1] < chk.msgs[i].msgdata[4]

\* C31: whenever the peer has sent a WindowAckSize message of four bytes with
\* value w, at any point of the session and in either role, the connection
\* holds w as the window its Acknowledgements are sent by once the message
\* is handled.
LastWindow ==
    LET S == { i \in 1..Len(chk.msgs) : /\ chk.msgs[i].msgtypeid = msgtypeidWindowAckSize
                                       /\ Len(chk.msgs[i].msgdata) = 4 }
    IN  IF S = {} THEN 0 ELSE chk.msgs[Max(S)].u32

C31_WindowAckSizeStored ==
    (chk # NoChunks /\ chk.err = "nil" /\ LastWindow # 0) =>
        chk.readAckSize = LastWindow

\* C32: when writeAVTag has written an A/V message longer than the write
\* chunk size it found, the writes it put on the wire are a SetChunkSize
\* message carrying a size of at least the message length, then the type 0
\* chunk header and the tag header of the A/V message as fillChunkHeader and
\* FillHeader produce them, then the payload.
LastMsgLen == Len(FillHeader(wr.last.tag)) + Len(wr.last.tag.Data)

LastChunkHeader ==
    fillChunkHeader(IF wr.last.tag.Type = TAG_AUDIO THEN 6 ELSE 7, wr.last.timestamp,
                    IF wr.last.tag.Type = TAG_AUDIO THEN msgtypeidAudioMsg
                    ELSE msgtypeidVideoMsg,
                    wr.avmsgsid, LastMsgLen)

C32_RaisedChunkSizeLeavesMessageIntact ==
    (wr # NoWriter /\ wr.tags > 0 /\ wr.err = "nil" /\ LastMsgLen > wr.last.max) =>
        LET k == wr.last.before
        IN  /\ Len(wr.wire) = k + 3
            /\ Len(wr.wire[k + 1]) = chunkHeaderLength + 4
            /\ SubSeq(wr.wire[k + 1], 1, chunkHeaderLength)
                   = fillChunkHeader(2, 0, msgtypeidSetChunkSize, 0, 4)
            /\ BytesToUint32(SubSeq(wr.wire[k + 1], chunkHeaderLength + 1,
                                    chunkHeaderLength + 4)) >= LastMsgLen
            /\ wr.wire[k + 2] = LastChunkHeader \o FillHeader(wr.last.tag)
            /\ wr.wire[k + 3] = wr.last.tag.Data

\* C33: the type 0 chunk header fillChunkHeader produces for a timestamp t
\* is read back by readChunk as timestamp t, and readChunk takes exactly the
\* bytes fillChunkHeader wrote for the header. The header read back is the
\* first of the last writeAVTag: that of the A/V message, or that of the
\* SetChunkSize message (timestamp 0) when the chunk size was raised.
LastRaised ==
    chunkHeaderLength + (IF wr.last.timestamp > FlvTimestampMax THEN 4 ELSE 0)
        + LastMsgLen > wr.last.max

C33_TimestampReadBack ==
    (wr # NoWriter /\ wr.parsed # NoHeader) =>
        LET t == IF LastRaised THEN 0 ELSE wr.last.timestamp
            written == IF LastRaised THEN fillChunkHeader(2, 0, msgtypeidSetChunkSize, 0, 4)
                       ELSE LastChunkHeader
        IN  /\ wr.parsed.err = "nil"
            /\ wr.parsed.timestamp = Uint32ToBytes(t)
            /\ wr.parsed.n = Len(written)

\* C34: in the H.264 stream of the TS demuxer, when an access unit leaves both
\* the SPS and the PPS of the stream different from those the codec data was
\* last built from, whether both changed in this access unit or one of them
\* in an earlier one, and the access unit ends with a slice, then a packet of
\* this access unit has header_changed = true and the codec data is rebuilt
\* from the new SPS and PPS.
EmittedNow == { i \in 1..Len(ts'.pkts) : i > Len(ts.pkts) }

BothDifferAfter ==
    /\ ts.CodecData # NoCodecData
    /\ ts'.fed # ts.fed
    /\ <<ts'.sps>> # ts.CodecData.SPS
    /\ <<ts'.pps>> # ts.CodecData.PPS
    /\ IsDataNALU(ts'.fed[Len(ts'.fed)][Len(ts'.fed[Len(ts'.fed)])])

C34_BothChangedRebuilds ==
    [][BothDifferAfter =>
         /\ \E i \in EmittedNow : ts'.pkts[i].HeaderChanged
         /\ ts'.CodecData = NewCodecDataFromSPSAndPPS(ts'.sps, ts'.pps)]_vars

\* C35: in ReadPacket of an RTMP conn, a received sequence header whose bytes
\* equal the codec data of its stream yields no packet; one whose bytes differ
\* (and parse) replaces the codec data in the streams of the conn and yields
\* exactly one packet, with header_changed = true; and the packets are
\* returned in the order their tags arrived, so that packet comes before any
\* media packet that arrived after it.
PacketsOfTag(i) == { j \in DOMAIN rp.out : rp.out[j].no = i }

StreamsAfterTag(i) == IF i < Len(rp.in) THEN rp.in[i + 1].cur ELSE rp.streams

C35_SequenceHeaderPackets ==
    rp # NoReader =>
        /\ \A i \in DOMAIN rp.in :
              LET e == rp.in[i]
              IN  e.tag.seqhdr =>
                    IF e.tag.Data = e.cur[e.tag.Type]
                    THEN PacketsOfTag(i) = {} /\ StreamsAfterTag(i) = e.cur
                    ELSE (rp.err = "nil" \/ i < Len(rp.in)) =>
                           /\ Cardinality(PacketsOfTag(i)) = 1
                           /\ \A j \in PacketsOfTag(i) :
                                 rp.out[j].HeaderChanged /\ rp.out[j].Data = e.tag.Data
                           /\ StreamsAfterTag(i) = [e.cur EXCEPT ![e.tag.Type] = e.tag.Data]
        /\ \A j, k \in DOMAIN rp.out : j < k => rp.out[j].no < rp.out[k].no

\* A sequence header equal to the codec data was passed over, a later one that
\* differs was returned with header_changed, and a media packet that arrived
\* after it was returned after it.
C35_Witness ==
    /\ rp # NoReader
    /\ \E i, j \in DOMAIN rp.in :
         /\ i < j
         /\ rp.in[i].tag.seqhdr /\ rp.in[i].tag.Data = rp.in[i].cur[rp.in[i].tag.Type]
         /\ rp.in[j].tag.seqhdr /\ rp.in[j].tag.Data # rp.in[j].cur[rp.in[j].tag.Type]
         /\ \E a, b \in DOMAIN rp.out :
               /\ a < b
               /\ rp.out[a].no = j /\ rp.out[a].HeaderChanged
               /\ ~rp.out[b].SeqHdr /\ rp.out[b].DataType # "script" /\ rp.out[b].no > j

\* C36: every ReadPacket call on a cursor of the main queue returns with the
\* read lock of the queue released, so that no read lock is left held by a
\* call that has returned and no WritePacket, WriteHeader or Close stays
\* parked in Lock behind one.
C36_ReadPacketReturnsUnlocked ==
    sys = "main" => (rlocks = 0 /\ ~wblocked)

\* C37: for any interleaving of OnHookEvent with the cancellation of the root
\* context and the exit of the workers, OnHookEvent never sends on the event
\* channel after a worker has closed it.
C37_NoSendOnClosedChannel ==
    ~(hls.closed /\ hls.out = "panic")

\* The last return of cursor c's ReadPacket is a packet flagged
\* header_changed and the cursor has not called Headers to the end yet.
FlaggedLast(c) ==
    /\ rets[c] # <<>> /\ Len(rets[c]) \in Delivered(c)
    /\ rets[c][Len(rets[c])].pkt.HeaderChanged
    /\ hres[c] = <<>>

\* C38: after a cursor's ReadPacket returned a packet with header_changed =
\* true, the cursor's next Headers() call on the open main queue returns the
\* non-empty header set whose begin_at equals that packet's header_begin_at,
\* whatever WritePacket and WriteHeader calls (evictions and header clean-up
\* included) the producer made between the two calls.
C38_HeadersAfterFlaggedPacket ==
    [][\A c \in Cursors :
         (sys = "main" /\ ~que.closed /\ FlaggedLast(c) /\ HeadersReturns(c)) =>
             LET r == hres'[c][1]
             IN  /\ r.err = "nil" /\ r.cdata # <<>>
                 /\ \E j \in DOMAIN que.headers :
                       /\ que.headers[j].BeginAt = HeaderAt(c, Len(rets[c]))
                       /\ r.cdata = CodecDataOf(que.headers[j].Datas)]_vars

\* The positions of the packets the main queue holds that satisfy P.
Buffered(P(_)) == {i \in que.buf.Head..(que.buf.Tail - 1) : P(Get(que.buf, i))}

IsVideoPkt(pkt) == pkt.DataType = "video"
IsAudioPkt(pkt) == pkt.DataType = "audio"
IsKeyPkt(pkt) == pkt.DataType = "video" /\ pkt.IsKeyFrame

\* C39: in every reachable state of the main queue, cur_gop_count equals the
\* number of video keyframe packets at positions in [head, tail), and
\* cur_video_count and cur_audio_count equal the numbers of video and audio
\* packets in that window.
C39_CountersMatchWindow ==
    sys = "main" =>
        /\ que.curGOPCount = Cardinality(Buffered(IsKeyPkt))
        /\ que.curVideoCount = Cardinality(Buffered(IsVideoPkt))
        /\ que.curAudioCount = Cardinality(Buffered(IsAudioPkt))

\* The main queue has evicted a packet and still holds a keyframe, another
\* video frame and an audio packet.
C39_Witness ==
    /\ sys = "main" /\ que.buf.Head > 0
    /\ que.curGOPCount > 0 /\ que.curVideoCount > que.curGOPCount
    /\ que.curAudioCount > 0

\* The keys of the cache's list.
ListKeys == {tsc.ll[i] : i \in DOMAIN tsc.ll}

\* C40: after TSCache.Reset in live mode the cache is empty in both of its
\* structures, the key list and the item map, so that after any later
\* SetItem sequence the list and the map hold exactly the same keys and no
\* key inserted before Reset remains.
C40_ResetEmptiesListAndMap ==
    (tsc # NoCache /\ ~IsRecord(tsc) /\ tsc.resets > 0) =>
        /\ ListKeys = DOMAIN tsc.lm
        /\ \A k \in ListKeys \cup DOMAIN tsc.lm : k > tsc.mark

\* Without a Reset the list and the map of a live cache hold the same keys.
ListMatchesMapBeforeReset ==
    (tsc # NoCache /\ ~IsRecord(tsc) /\ tsc.resets = 0) => ListKeys = DOMAIN tsc.lm

\* C7: after Close no ReadPacket stays blocked: every call returns a
\* buffered packet or EOF.
C7_NoReadBlockedAfterClose ==
    \A c \in Cursors : ~(que.closed /\ cpc[c] = "lockWait")

====
